---- MODULE Spec2Model ----
(***************************************************************************)
(* A model of codetoprompt's structural compressor: the language           *)
(* detection, the parser cache, the per-language analysers and formatters, *)
(* the factories, the Compressor orchestrator and the part of              *)
(* CodeToPrompt that calls it.                                             *)
(*                                                                         *)
(* Text.  A Python str is modelled as a sequence of lines, a line as a     *)
(* sequence of tokens (TLA+ strings): an f-string's literal parts and its  *)
(* interpolated values are the tokens.  "\n".join(xs) is the concatenation *)
(* of the lines of xs.  The empty str is the one line without tokens.      *)
(*                                                                         *)
(* Syntax trees.  A tree-sitter node is [type, text, children]; text is    *)
(* the source slice source_code[start_byte:end_byte] of the node.          *)
(***************************************************************************)
EXTENDS Integers, Sequences, FiniteSets, TLC

VARIABLES
    fs,         \* the file system: path -> content id, or Absent
    analysers,  \* AnalyserFactory._analysers: language id -> analyser class
    formatters, \* FormatterFactory._formatters: language id -> formatter class
    installed,  \* the grammars tree_sitter_language_pack can load
    parsers,    \* compressor -> its base_analyser.parsers: language -> parser instance
    built,      \* language -> the number of parsers constructed for it so far
    last,       \* the last call made and what it returned
    memo,       \* path -> the result of the last generate_compressed_prompt on it
                \* since the file or a registry last changed
    ctp,        \* the CodeToPrompt object: compress, output_format, _files_processed,
                \* processed_files, xml_index and the parts of its prompt
    steps,      \* the number of calls made so far
    alang,      \* SpecTree: the language id whose analyser/formatter run
    atree,      \* SpecTree: the syntax tree handed to extract_structure
    apc,        \* SpecTree: "parsed" -> "extracted" -> "rendered"
    astruct,    \* SpecTree: the model returned by extract_structure
    aout,       \* SpecTree: the outcome of format_structure
    anode,      \* SpecComment: the child of atree whose comment is asked for
    threads,    \* SpecPar: thread -> the call it is in and the locals of its frame
    made,       \* SpecPar: cache -> language -> the parsers constructed for it
    app         \* SpecSelect: the FileSelectorApp: its tree nodes, cursor and result

avars == <<alang, atree, apc, astruct, aout>>
cvars == <<fs, analysers, formatters, installed, parsers, built, last, memo, ctp, steps>>
tvars == <<anode, threads, made, app>>
vars == <<cvars, avars, tvars>>

-----------------------------------------------------------------------------
(* Bounds *)

\* number of statements / items of a generated source file
MaxNodes == 3

\* number of calls (compressor, registry, file system) in one behaviour
MaxSteps == 3

\* number of children of the node whose children a comment is looked up in
MaxSiblings == 4

\* the longest run of backticks in the content of a processed file
MaxRun == 4

-----------------------------------------------------------------------------
(* Python values *)

\* Python's None where a str is expected
NoneS == "<None>"

\* an f-string interpolation {v}: None renders as the text None
Fmt(v) == IF v = NoneS THEN "None" ELSE v

EmptyLine == <<>>

\* the str "" as a text
EmptyText == <<EmptyLine>>

\* Python's None where a text is expected
PyNone == <<<<NoneS>>>>

LineIsEmpty(l) == \A i \in DOMAIN l : l[i] = ""

\* bool(s) of a str: false only for ""
Truthy(text) == text # PyNone /\ ~(Len(text) = 1 /\ LineIsEmpty(text[1]))

RECURSIVE Flatten(_)
Flatten(xs) == IF xs = <<>> THEN <<>> ELSE Head(xs) \o Flatten(Tail(xs))

\* "\n".join(xs), xs a list of texts
JoinNL(xs) == IF xs = <<>> THEN EmptyText ELSE Flatten(xs)

\* a one-line text
Line(toks) == <<toks>>

\* every line of a text prefixed by pre (f"    {x}" on a one-line x)
Indent(pre, text) == [i \in DOMAIN text |-> <<pre>> \o text[i]]

\* the outcome of a call: a returned value or a raised exception
Ret(v) == [raised |-> FALSE, exc |-> "", val |-> v]
Raise(e) == [raised |-> TRUE, exc |-> e, val |-> EmptyText]

Max(S) == CHOOSE x \in S : \A y \in S : y <= x
Min(S) == CHOOSE x \in S : \A y \in S : x <= y

\* a list of outcomes computed one after the other: the first exception
\* raised ends the computation, otherwise the list of the values
Collect(outs) ==
    LET bad == {i \in DOMAIN outs : outs[i].raised}
    IN IF bad # {} THEN outs[Min(bad)]
       ELSE Ret([i \in DOMAIN outs |-> outs[i].val])

\* the rest of a computation on the value of an outcome: an exception
\* raised ends it
Then(out, Rest(_)) == IF out.raised THEN out ELSE Rest(out.val)

\* a value bound to a name for the rest of a computation
Let(v, Rest(_)) == Rest(v)

\* the values of a list of optional records that are not None
Somes(opts) ==
    LET kept == SelectSeq(opts, LAMBDA o : o.some)
    IN [i \in DOMAIN kept |-> kept[i].val]

-----------------------------------------------------------------------------
(* Syntax trees *)

Node(t, x, c) == [type |-> t, text |-> x, children |-> c]

\* an anonymous token node: its type is its text
Tok(t) == Node(t, t, <<>>)

OfType(children, t) == SelectSeq(children, LAMBDA n : n.type = t)

HasType(children, t) == \E i \in DOMAIN children : children[i].type = t

\* for child in node.children: if child.type == t: field = text(child)
\* leaves the text of the last child of type t, or dflt when there is none
LastText(children, t, dflt) ==
    LET idx == {i \in DOMAIN children : children[i].type = t}
    IN IF idx = {} THEN dflt ELSE children[Max(idx)].text

RECURSIVE MapSeq(_, _)
MapSeq(Op(_), s) == IF s = <<>> THEN <<>> ELSE <<Op(Head(s))>> \o MapSeq(Op, Tail(s))

Range(seq) == {seq[i] : i \in DOMAIN seq}

\* the list of F(a, b) for a in as, b in bs
Cross(as, bs, F(_, _)) ==
    [i \in 1..(Len(as) * Len(bs)) |->
        F(as[((i - 1) \div Len(bs)) + 1], bs[((i - 1) % Len(bs)) + 1])]

\* the ways a list of n statements starts: a statement of a kind without a
\* body, or one of a kind with a body that owns 0..n-1 of the statements
Starts(kinds, bodyKinds, n) ==
    Flatten(MapSeq(LAMBDA kind : IF kind \in bodyKinds THEN [i \in 1..n |-> <<kind, i - 1>>]
                                 ELSE <<<<kind, 0>>>>,
                   kinds))

\* the label of the k-th statement of a generated source
Lbl(pre, k) == pre \o ToString(k)

\* all-uppercase identifiers of the generated sources (str.isupper)
IsUpper(name) == name \in {Lbl("C", k) : k \in 0..(MaxNodes + 1)}

\* docstring bodies of the generated sources and their quoted source text
DocBodies == {Lbl("doc", k) : k \in 0..(MaxNodes + 1)}
Quoted(body) == "\"\"\"" \o body \o "\"\"\""

-----------------------------------------------------------------------------
(* BaseAnalyser helpers *)

extract_node_text(node) == node.text

\* docstring.strip('\'"'), then the first line (the generated docstrings are
\* one line shorter than 100 characters, which is returned whole)
clean_docstring(docstring) ==
    IF \E b \in DocBodies : Quoted(b) = docstring
    THEN CHOOSE b \in DocBodies : Quoted(b) = docstring
    ELSE docstring

\* the comment bodies of the generated sources
NoteBodies == {Lbl("note", k) : k \in 1..(MaxSiblings + 1)}

\* the characters of the text of a generated comment; its body counts as
\* one character
Chars(text) ==
    IF \E b \in NoteBodies : text \in {"// " \o b, "/* " \o b \o " */", "/** " \o b \o " */"}
    THEN LET b == CHOOSE b \in NoteBodies :
                    text \in {"// " \o b, "/* " \o b \o " */", "/** " \o b \o " */"}
         IN CASE text = "// " \o b -> <<"/", "/", " ", b>>
              [] text = "/* " \o b \o " */" -> <<"/", "*", " ", b, " ", "*", "/">>
              [] text = "/** " \o b \o " */" -> <<"/", "*", "*", " ", b, " ", "*", "/">>
    ELSE <<text>>

RECURSIVE Str(_)
\* the str of a sequence of characters
Str(chars) == IF chars = <<>> THEN "" ELSE Head(chars) \o Str(Tail(chars))

\* the characters str.strip() removes
IsSpace(ch) == ch \in {" ", "\n", "\t"}

\* s.strip()
Strip(s) ==
    LET inked == {i \in DOMAIN s : ~IsSpace(s[i])}
    IN IF inked = {} THEN <<>> ELSE SubSeq(s, Min(inked), Max(inked))

\* s.startswith(prefix), s.endswith(suffix)
StartsWith(s, prefix) == Len(s) >= Len(prefix) /\ SubSeq(s, 1, Len(prefix)) = prefix
EndsWith(s, suffix) ==
    Len(s) >= Len(suffix) /\ SubSeq(s, Len(s) - Len(suffix) + 1, Len(s)) = suffix

\* s[n:-m], and s[n:] for m = 0
Slice(s, n, m) == IF n + 1 > Len(s) - m THEN <<>> ELSE SubSeq(s, n + 1, Len(s) - m)

RECURSIVE Sorted(_)
\* the numbers of a set in increasing order
Sorted(S) == IF S = {} THEN <<>> ELSE <<Min(S)>> \o Sorted(S \ {Min(S)})

\* s.split(sep) for a separator of one character
Split(s, sep) ==
    LET breaks == <<0>> \o Sorted({i \in DOMAIN s : s[i] = sep}) \o <<Len(s) + 1>>
    IN [k \in 1..(Len(breaks) - 1) |-> Slice(s, breaks[k], Len(s) - breaks[k + 1] + 1)]

RECURSIVE Join(_, _)
\* sep.join(strs)
Join(sep, strs) ==
    IF strs = <<>> THEN <<>>
    ELSE IF Len(strs) = 1 THEN strs[1]
    ELSE strs[1] \o sep \o Join(sep, Tail(strs))

\* the length a cleaned comment is cut to
Limit == 200

\* a cut that leaves no mark
TruncatedBare(result) == Slice(result, 0, Max({Len(result) - Limit, 0}))

\* result[:200] + ('...' if len(result) > 200 else '')
Truncated(result) ==
    Slice(result, 0, Max({Len(result) - Limit, 0}))
    \o (IF Len(result) > Limit THEN <<".", ".", ".">> ELSE <<>>)

\* the comment without its markers
Unmarked(comment) ==
    CASE StartsWith(comment, <<"/", "*", "*">>) /\ EndsWith(comment, <<"*", "/">>) ->
           Strip(Slice(comment, 3, 2))
      [] StartsWith(comment, <<"/", "*">>) /\ EndsWith(comment, <<"*", "/">>) ->
           Strip(Slice(comment, 2, 2))
      [] StartsWith(comment, <<"/", "/">>) -> Strip(Slice(comment, 2, 0))
      [] StartsWith(comment, <<"#">>) -> Strip(Slice(comment, 1, 0))
      [] OTHER -> comment

\* one round of the loop over the lines: the line stripped, without its
\* leading star
CleanedLine(line) ==
    IF StartsWith(Strip(line), <<"*">>) THEN Strip(Slice(Strip(line), 1, 0)) ELSE Strip(line)

\* clean_comment(comment) on the characters of a comment
clean_comment(comment) ==
    Truncated(Join(<<" ">>,
                   SelectSeq([k \in DOMAIN Split(Unmarked(Strip(comment)), "\n") |->
                                CleanedLine(Split(Unmarked(Strip(comment)), "\n")[k])],
                             LAMBDA line : line # <<>> /\ ~StartsWith(line, <<"@">>))))

RECURSIVE PreviousComment(_, _)
\* for i in range(node_index - 1, -1, -1): the loop from sibling i downwards
PreviousComment(children, i) ==
    IF i = 0 THEN NoneS
    ELSE IF children[i].type \in {"line_comment", "block_comment"}
    THEN Str(clean_comment(Chars(extract_node_text(children[i]))))
    ELSE IF children[i].type # "modifiers" THEN NoneS
    ELSE PreviousComment(children, i - 1)

\* a node without a parent
NoParent == Node(NoneS, "", <<>>)

\* extract_preceding_comment(node) of the i-th child of parent
extract_preceding_comment(parent, i) ==
    IF parent = NoParent THEN NoneS
    ELSE IF i = 1 THEN NoneS
    ELSE PreviousComment(parent.children, i - 1)

-----------------------------------------------------------------------------
(* Python sources: the trees tree-sitter-python yields *)

PyPass == Node("pass_statement", "pass", <<>>)

PyBlock(stmts) == Node("block", "", IF stmts = <<>> THEN <<PyPass>> ELSE stmts)

PyImport(k) == Node("import_statement", Lbl("import m", k), <<>>)

\* NAME = value at statement level: expression_statement > assignment
PyAssign(name, value) ==
    Node("expression_statement", "",
         <<Node("assignment", "",
                <<Node("identifier", name, <<>>), Tok("="), Node("integer", value, <<>>)>>)>>)

PyDocStmt(k) ==
    Node("expression_statement", "", <<Node("string", Quoted(Lbl("doc", k)), <<>>)>>)

PyDef(k, body) ==
    Node("function_definition", "",
         <<Tok("def"), Node("identifier", Lbl("f", k), <<>>),
           Node("parameters", "(x, y)", <<>>), Tok(":"), PyBlock(body)>>)

PyClass(k, body) ==
    Node("class_definition", "",
         <<Tok("class"), Node("identifier", Lbl("K", k), <<>>), Tok(":"), PyBlock(body)>>)

\* class K(bases): pass, bases the source text of the argument list
PyClassOf(k, bases) ==
    Node("class_definition", "",
         <<Tok("class"), Node("identifier", Lbl("K", k), <<>>),
           Node("argument_list", bases, <<>>), Tok(":"), PyBlock(<<>>)>>)

\* the argument lists of the generated classes with bases
BaseLists == {"(B1)", "(B1, B2)"}

PyKinds == <<"import", "const", "doc", "def", "class">>
PyBodyKinds == {"def", "class"}

PyStmt(kind, k, body) ==
    CASE kind = "import" -> PyImport(k)
      [] kind = "const" -> PyAssign(Lbl("C", k), Lbl("v", k))
      [] kind = "doc" -> PyDocStmt(k)
      [] kind = "def" -> PyDef(k, body)
      [] kind = "class" -> PyClass(k, body)

\* every statement list of exactly n statements, the statements numbered in
\* source order from base on; a def or class owns the statements of its
\* block; shorter[k + 1][b] lists the lists of k < n statements from b on
PyStmts(shorter, n, base) ==
    IF base + n > MaxNodes THEN <<>>
    ELSE Flatten(MapSeq(
           LAMBDA kb : Cross(shorter[kb[2] + 1][base + 1], shorter[n - kb[2]][base + 1 + kb[2]],
                             LAMBDA body, rest : <<PyStmt(kb[1], base, body)>> \o rest),
           Starts(PyKinds, PyBodyKinds, n)))

RECURSIVE PyStmtLists(_)
\* the statement lists of 0, 1, ..., n statements
PyStmtLists(n) ==
    IF n = 0 THEN <<[base \in 0..(MaxNodes + 1) |-> <<<<>>>>]>>
    ELSE Let(PyStmtLists(n - 1),
             LAMBDA shorter :
               Append(shorter, [base \in 0..(MaxNodes + 1) |-> PyStmts(shorter, n, base)]))

PyModule(stmts) == Node("module", "", stmts)

\* the generated modules, and a module of one class for each list of bases
PyTrees ==
    Let(PyStmtLists(MaxNodes),
        LAMBDA lists :
          {PyModule(s) : s \in Range(Flatten([n \in 1..(MaxNodes + 1) |-> lists[n][0]]))})
    \cup {PyModule(<<PyClassOf(0, bases)>>) : bases \in BaseLists}

-----------------------------------------------------------------------------
(* PythonAnalyser *)

\* the first docstring statement of the blocks of a def: for each block the
\* scan stops at the first expression_statement whose first child is a string
PyIsDocStmt(stmt) ==
    /\ stmt.type = "expression_statement"
    /\ stmt.children # <<>>
    /\ stmt.children[1].type = "string"

PyBlockDoc(block, dflt) ==
    LET docs == SelectSeq(block.children, PyIsDocStmt)
    IN IF docs = <<>> THEN dflt
       ELSE clean_docstring(extract_node_text(docs[1].children[1]))

RECURSIVE PyBlocksDoc(_, _)
PyBlocksDoc(blocks, dflt) ==
    IF blocks = <<>> THEN dflt
    ELSE PyBlocksDoc(Tail(blocks), PyBlockDoc(Head(blocks), dflt))

PyExtractFunctionInfo(node) ==
    [name |-> LastText(node.children, "identifier", ""),
     parameters |-> LastText(node.children, "parameters", ""),
     docstring |-> PyBlocksDoc(OfType(node.children, "block"), NoneS),
     return_type |-> LastText(node.children, "type", NoneS),
     is_async |-> HasType(node.children, "async")]

\* the docstring of a class is the first string statement over all its blocks
PyClassDoc(blocks) ==
    LET docs == SelectSeq(Flatten(MapSeq(LAMBDA b : b.children, blocks)), PyIsDocStmt)
    IN IF docs = <<>> THEN NoneS
       ELSE clean_docstring(extract_node_text(docs[1].children[1]))

\* inheritance_text.strip('()')
StripParens(t) ==
    CASE t = "(B1)" -> "B1"
      [] t = "(B1, B2)" -> "B1, B2"
      [] OTHER -> t

PyExtractClassInfo(node) ==
    LET blocks == OfType(node.children, "block")
        stmts == Flatten(MapSeq(LAMBDA b : b.children, blocks))
    IN [name |-> LastText(node.children, "identifier", ""),
        docstring |-> PyClassDoc(blocks),
        methods |-> MapSeq(PyExtractFunctionInfo, OfType(stmts, "function_definition")),
        inheritance |-> StripParens(LastText(node.children, "argument_list", ""))]

NoConst == [some |-> FALSE, name |-> "", value |-> ""]

\* node.children[0] and node.children[1] raise IndexError on a short list
PyExtractConstantInfo(node) ==
    IF node.type # "assignment" THEN Ret(NoConst)
    ELSE IF Len(node.children) < 1 THEN Raise("IndexError")
    ELSE LET left == node.children[1]
         IN IF left.type = "identifier" /\ IsUpper(extract_node_text(left))
            THEN IF Len(node.children) < 2 THEN Raise("IndexError")
                 ELSE Ret([some |-> TRUE, name |-> extract_node_text(left),
                           value |-> extract_node_text(node.children[2])])
            ELSE Ret(NoConst)

PyEmptyStructure == [imports |-> <<>>, classes |-> <<>>, functions |-> <<>>, constants |-> <<>>]

\* a dispatch that puts each function first in its list
PyVisitPrepending(node, ptype, st) ==
    CASE node.type \in {"import_statement", "import_from_statement"} ->
           Ret([st EXCEPT !.imports = Append(@, extract_node_text(node))])
      [] node.type = "class_definition" ->
           Ret([st EXCEPT !.classes = Append(@, PyExtractClassInfo(node))])
      [] node.type = "function_definition" ->
           Ret([st EXCEPT !.functions = <<PyExtractFunctionInfo(node)>> \o @])
      [] OTHER -> Ret(st)

\* the dispatch of traverse(node) on node.type, before it recurses;
\* ptype is node.parent.type, NoneS for the root
PyVisit(node, ptype, st) ==
    CASE node.type \in {"import_statement", "import_from_statement"} ->
           Ret([st EXCEPT !.imports = Append(@, extract_node_text(node))])
      [] node.type = "class_definition" ->
           Ret([st EXCEPT !.classes = Append(@, PyExtractClassInfo(node))])
      [] node.type = "function_definition" ->
           Ret([st EXCEPT !.functions = Append(@, PyExtractFunctionInfo(node))])
      [] node.type = "assignment" ->
           IF ptype = "module"
           THEN Then(PyExtractConstantInfo(node),
                     LAMBDA c : IF c.some
                                THEN Ret([st EXCEPT !.constants =
                                            Append(@, [name |-> c.name, value |-> c.value])])
                                ELSE Ret(st))
           ELSE Ret(st)
      [] OTHER -> Ret(st)

RECURSIVE PyTraverse(_, _, _)
RECURSIVE PyTraverseAll(_, _, _)

\* traverse(node): the dispatch, then every child in order; acc is the
\* outcome so far, an exception ends the walk
PyTraverse(node, ptype, acc) ==
    IF acc.raised THEN acc
    ELSE PyTraverseAll(node.children, node.type, PyVisit(node, ptype, acc.val))

PyTraverseAll(children, ptype, acc) ==
    IF children = <<>> \/ acc.raised THEN acc
    ELSE PyTraverseAll(Tail(children), ptype, PyTraverse(Head(children), ptype, acc))

PyExtractStructure(tree) == PyTraverse(tree, NoneS, Ret(PyEmptyStructure))

-----------------------------------------------------------------------------
(* PythonFormatter *)

PyFormatConstant(c) == Line(<<Fmt(c.name), " = ", Fmt(c.value)>>)

PySignature(f) ==
    <<"def ", Fmt(f.name), "(", Fmt(f.parameters), ")">>
    \o (IF f.return_type # NoneS /\ f.return_type # "" THEN <<" -> ", Fmt(f.return_type)>> ELSE <<>>)
    \o <<":">>

HasDoc(d) == d # NoneS /\ d # ""

PyFormatFunction(f) ==
    <<PySignature(f)>>
    \o (IF HasDoc(f.docstring) THEN <<<<"    \"\"\"", Fmt(f.docstring), "\"\"\"">>>> ELSE <<>>)

\* a method rendered by its signature alone
PyFormatMethodBare(m) == <<<<"    ">> \o PySignature(m)>>

PyFormatMethod(m) ==
    <<<<"    ">> \o PySignature(m)>>
    \o (IF HasDoc(m.docstring) THEN <<<<"        \"\"\"", Fmt(m.docstring), "\"\"\"">>>> ELSE <<>>)

\* ', '.join(s) of a str s puts ', ' between its characters
JoinChars(s) ==
    CASE s = "B1" -> "B, 1"
      [] s = "B1, B2" -> "B, 1, ,,  , B, 2"
      [] OTHER -> "', '.join(" \o s \o ")"

PyFormatClass(c) ==
    <<<<"class ", Fmt(c.name)>>
        \o (IF c.inheritance # "" THEN <<"(", JoinChars(c.inheritance), ")">> ELSE <<>>)
        \o <<":">>>>
    \o (IF HasDoc(c.docstring) THEN <<<<"    \"\"\"", Fmt(c.docstring), "\"\"\"">>>> ELSE <<>>)
    \o Flatten(MapSeq(PyFormatMethod, c.methods))

\* the list `formatted`: one text per appended element
PyFormatted(s) ==
    (IF s.imports # <<>> THEN MapSeq(LAMBDA i : Line(<<i>>), s.imports) \o <<EmptyText>> ELSE <<>>)
    \o (IF s.constants # <<>> THEN MapSeq(PyFormatConstant, s.constants) \o <<EmptyText>> ELSE <<>>)
    \o Flatten(MapSeq(LAMBDA c : <<PyFormatClass(c), EmptyText>>, s.classes))
    \o Flatten(MapSeq(LAMBDA f : <<PyFormatFunction(f), EmptyText>>, s.functions))

PyFormatStructure(s) == Ret(JoinNL(PyFormatted(s)))

-----------------------------------------------------------------------------
(* Rust sources: the trees tree-sitter-rust yields *)

RsFieldList ==
    Node("field_declaration_list", "",
         <<Tok("{"),
           Node("field_declaration", "",
                <<Node("field_identifier", "x", <<>>), Tok(":"), Node("primitive_type", "i32", <<>>)>>),
           Tok("}")>>)

RsStruct(k) ==
    Node("struct_item", "",
         <<Tok("struct"), Node("type_identifier", Lbl("S", k), <<>>), RsFieldList>>)

RsEnum(k) ==
    Node("enum_item", "",
         <<Tok("enum"), Node("type_identifier", Lbl("E", k), <<>>),
           Node("enum_variant_list", "",
                <<Tok("{"), Node("enum_variant", "", <<Node("identifier", "A", <<>>)>>), Tok("}")>>)>>)

\* static G: i32 = 0;
RsStatic(k) ==
    Node("static_item", "",
         <<Tok("static"), Node("identifier", Lbl("G", k), <<>>), Tok(":"),
           Node("primitive_type", "i32", <<>>), Tok("="),
           Node("integer_literal", "0", <<>>), Tok(";")>>)

RsDeclList(items) == Node("declaration_list", "", <<Tok("{")>> \o items \o <<Tok("}")>>)

RsMod(k, items) ==
    Node("mod_item", "",
         <<Node("visibility_modifier", "pub", <<>>), Tok("mod"),
           Node("identifier", Lbl("M", k), <<>>), RsDeclList(items)>>)

RsParam ==
    Node("parameter", "a: i32",
         <<Node("identifier", "a", <<>>), Tok(":"), Node("primitive_type", "i32", <<>>)>>)

\* fn g() { items }  or  fn g(a: i32) { items }
RsFn(k, withParam, body) ==
    Node("function_item", "",
         <<Tok("fn"), Node("identifier", Lbl("g", k), <<>>),
           Node("parameters", "",
                <<Tok("(")>> \o (IF withParam THEN <<RsParam>> ELSE <<>>) \o <<Tok(")")>>),
           Node("block", "", <<Tok("{")>> \o body \o <<Tok("}")>>)>>)

RsImpl(k, methods) ==
    Node("impl_item", "",
         <<Tok("impl"), Node("type_identifier", Lbl("S", k), <<>>), RsDeclList(methods)>>)

RsTrait(k, methods) ==
    Node("trait_item", "",
         <<Tok("trait"), Node("type_identifier", Lbl("T", k), <<>>), RsDeclList(methods)>>)

RsItem(kind, k, body) ==
    CASE kind = "struct" -> RsStruct(k)
      [] kind = "enum" -> RsEnum(k)
      [] kind = "static" -> RsStatic(k)
      [] kind = "mod" -> RsMod(k, body)
      [] kind = "fn" -> RsFn(k, FALSE, body)
      [] kind = "fnp" -> RsFn(k, TRUE, body)
      [] kind = "impl" -> RsImpl(k, body)
      [] kind = "trait" -> RsTrait(k, body)

\* the item kinds a container's body may hold: any item in a file, a mod or
\* a block, only functions in an impl or a trait
RsKinds(ctx) ==
    IF ctx = "items" THEN <<"struct", "enum", "static", "mod", "fn", "fnp", "impl", "trait">>
    ELSE <<"fn", "fnp">>
RsBodyKinds == {"mod", "fn", "fnp", "impl", "trait"}
RsBodyCtx(kind) == IF kind \in {"impl", "trait"} THEN "methods" ELSE "items"

\* every item list of exactly n items, numbered in source order from base
\* on; shorter[k + 1][b][ctx] lists the lists of k < n items from b on
RsItems(shorter, n, base, ctx) ==
    IF base + n > MaxNodes THEN <<>>
    ELSE Flatten(MapSeq(
           LAMBDA kb : Cross(shorter[kb[2] + 1][base + 1][RsBodyCtx(kb[1])],
                             shorter[n - kb[2]][base + 1 + kb[2]][ctx],
                             LAMBDA body, rest : <<RsItem(kb[1], base, body)>> \o rest),
           Starts(RsKinds(ctx), RsBodyKinds, n)))

RECURSIVE RsItemLists(_)
RsItemLists(n) ==
    IF n = 0
    THEN <<[base \in 0..(MaxNodes + 1) |-> [ctx \in {"items", "methods"} |-> <<<<>>>>]]>>
    ELSE Let(RsItemLists(n - 1),
             LAMBDA shorter :
               Append(shorter, [base \in 0..(MaxNodes + 1) |->
                                  [ctx \in {"items", "methods"} |->
                                     RsItems(shorter, n, base, ctx)]]))

RsSourceFile(items) == Node("source_file", "", items)

RsTrees ==
    Let(RsItemLists(MaxNodes),
        LAMBDA lists :
          {RsSourceFile(s) :
             s \in Range(Flatten([n \in 1..(MaxNodes + 1) |-> lists[n][0]["items"]]))})

-----------------------------------------------------------------------------
(* RustAnalyser *)

NoInfo == [some |-> FALSE, val |-> <<>>]
Some(v) == [some |-> TRUE, val |-> v]

RsExtractFieldInfo(node) ==
    LET info == [name |-> LastText(node.children, "identifier", ""),
                 type |-> LastText(node.children, "type_annotation", ""),
                 is_public |-> HasType(node.children, "visibility_modifier")]
    IN IF info.name # "" THEN Some(info) ELSE NoInfo

\* the field records of the field_declaration children of every child of
\* type listType
RsFields(children, listType) ==
    Somes(MapSeq(RsExtractFieldInfo,
                 OfType(Flatten(MapSeq(LAMBDA l : l.children, OfType(children, listType))),
                        "field_declaration")))

RsExtractVariantInfo(node) ==
    LET info == [name |-> LastText(node.children, "identifier", ""),
                 fields |-> RsFields(node.children, "field_declaration_list")]
    IN IF info.name # "" THEN Some(info) ELSE NoInfo

RsExtractStructInfo(node) ==
    [name |-> LastText(node.children, "type_identifier", ""),
     is_public |-> HasType(node.children, "visibility_modifier"),
     fields |-> RsFields(node.children, "field_declaration_list")]

RsExtractEnumInfo(node) ==
    [name |-> LastText(node.children, "type_identifier", ""),
     is_public |-> HasType(node.children, "visibility_modifier"),
     variants |->
        Somes(MapSeq(RsExtractVariantInfo,
                     OfType(Flatten(MapSeq(LAMBDA l : l.children,
                                           OfType(node.children, "enum_variant_list"))),
                            "enum_variant")))]

RsExtractParam(param) ==
    [name |-> LastText(param.children, "identifier", ""),
     type |-> LastText(param.children, "type_annotation", "")]

RsExtractFunctionInfo(node) ==
    [name |-> LastText(node.children, "identifier", ""),
     is_public |-> HasType(node.children, "visibility_modifier"),
     parameters |->
        MapSeq(RsExtractParam,
               OfType(Flatten(MapSeq(LAMBDA l : l.children, OfType(node.children, "parameters"))),
                      "parameter")),
     return_type |-> LastText(node.children, "type_annotation", NoneS),
     is_unsafe |-> HasType(node.children, "unsafe"),
     is_async |-> HasType(node.children, "async")]

\* the function_item children of the declaration_list children of a node
RsMethods(children) ==
    MapSeq(RsExtractFunctionInfo,
           OfType(Flatten(MapSeq(LAMBDA l : l.children, OfType(children, "declaration_list"))),
                  "function_item"))

RsExtractTraitInfo(node) ==
    [name |-> LastText(node.children, "type_identifier", ""),
     is_public |-> HasType(node.children, "visibility_modifier"),
     methods |-> RsMethods(node.children)]

\* trait_text.replace('for', '').strip()
StripFor(t) == IF t = NoneS THEN NoneS ELSE "strip_for(" \o t \o ")"

RsExtractImplInfo(node) ==
    [trait |-> StripFor(LastText(node.children, "trait_bounds", NoneS)),
     type |-> LastText(node.children, "type_identifier", ""),
     methods |-> RsMethods(node.children)]

\* on a child of type '=' the value is the text of child.children[1]: an
\* IndexError on a child with fewer than two children
RsExtractGlobalInfo(node) ==
    LET eqs == OfType(node.children, "=")
    IN IF \E i \in DOMAIN eqs : Len(eqs[i].children) < 2 THEN Raise("IndexError")
       ELSE LET info == [name |-> LastText(node.children, "identifier", ""),
                         type |-> LastText(node.children, "type_annotation", ""),
                         is_public |-> HasType(node.children, "visibility_modifier"),
                         is_mutable |-> HasType(node.children, "mutable_specifier"),
                         value |-> IF eqs = <<>> THEN NoneS
                                   ELSE extract_node_text(eqs[Len(eqs)].children[2])]
            IN Ret(IF info.name # "" THEN Some(info) ELSE NoInfo)

RsModuleKinds == {"struct_item", "enum_item", "trait_item", "impl_item", "function_item", "static_item"}

\* the ('kind', info) entry a statement of a mod's declaration list yields
RsModuleItem(stmt) ==
    CASE stmt.type = "struct_item" -> Ret(Some(<<"struct", RsExtractStructInfo(stmt)>>))
      [] stmt.type = "enum_item" -> Ret(Some(<<"enum", RsExtractEnumInfo(stmt)>>))
      [] stmt.type = "trait_item" -> Ret(Some(<<"trait", RsExtractTraitInfo(stmt)>>))
      [] stmt.type = "impl_item" -> Ret(Some(<<"impl", RsExtractImplInfo(stmt)>>))
      [] stmt.type = "function_item" -> Ret(Some(<<"function", RsExtractFunctionInfo(stmt)>>))
      [] stmt.type = "static_item" ->
           Then(RsExtractGlobalInfo(stmt),
                LAMBDA g : Ret(IF g.some THEN Some(<<"global", g.val>>) ELSE NoInfo))
      [] OTHER -> Ret(NoInfo)

RsExtractModuleInfo(node) ==
    LET stmts == Flatten(MapSeq(LAMBDA l : l.children, OfType(node.children, "declaration_list")))
    IN Then(Collect(MapSeq(RsModuleItem, stmts)),
            LAMBDA items : Ret([name |-> LastText(node.children, "identifier", ""),
                                is_public |-> HasType(node.children, "visibility_modifier"),
                                items |-> Somes(items)]))

RsEmptyStructure ==
    [modules |-> <<>>, structs |-> <<>>, enums |-> <<>>, traits |-> <<>>,
     impls |-> <<>>, functions |-> <<>>, globals |-> <<>>]

\* the dispatch of traverse(node) on node.type, before it recurses
RsVisit(node, st) ==
    CASE node.type = "mod_item" ->
           Then(RsExtractModuleInfo(node), LAMBDA m : Ret([st EXCEPT !.modules = Append(@, m)]))
      [] node.type = "struct_item" ->
           Ret([st EXCEPT !.structs = Append(@, RsExtractStructInfo(node))])
      [] node.type = "enum_item" ->
           Ret([st EXCEPT !.enums = Append(@, RsExtractEnumInfo(node))])
      [] node.type = "trait_item" ->
           Ret([st EXCEPT !.traits = Append(@, RsExtractTraitInfo(node))])
      [] node.type = "impl_item" ->
           Ret([st EXCEPT !.impls = Append(@, RsExtractImplInfo(node))])
      [] node.type = "function_item" ->
           Ret([st EXCEPT !.functions = Append(@, RsExtractFunctionInfo(node))])
      [] node.type = "static_item" ->
           Then(RsExtractGlobalInfo(node),
                LAMBDA g : IF g.some THEN Ret([st EXCEPT !.globals = Append(@, g.val)])
                           ELSE Ret(st))
      [] OTHER -> Ret(st)

RECURSIVE RsTraverse(_, _)
RECURSIVE RsTraverseAll(_, _)

RsTraverse(node, acc) ==
    IF acc.raised THEN acc
    ELSE RsTraverseAll(node.children, RsVisit(node, acc.val))

RsTraverseAll(children, acc) ==
    IF children = <<>> \/ acc.raised THEN acc
    ELSE RsTraverseAll(Tail(children), RsTraverse(Head(children), acc))

RsExtractStructure(tree) == RsTraverse(tree, Ret(RsEmptyStructure))

-----------------------------------------------------------------------------
(* RustFormatter *)

\* the formatter reads 'visibility', a key no analyser record has: ''
RsFormatModule(m) == Line(<<"mod ", Fmt(m.name), ";">>)

RsFormatField(f) == <<"    ", Fmt(f.name), ": ", Fmt(f.type), ",">>

RsFormatStruct(s) ==
    <<<<"struct ", Fmt(s.name), " {">>>> \o MapSeq(RsFormatField, s.fields) \o <<<<"}">>>>

\* ', '.join(parameters) raises TypeError on a list that holds dicts
RsFormatMethod(m) ==
    IF m.parameters # <<>> THEN Raise("TypeError")
    ELSE Ret(<<<<"    ", "fn ", Fmt(m.name), "(", ")">>
                  \o (IF m.return_type # NoneS /\ m.return_type # ""
                      THEN <<" -> ", Fmt(m.return_type)>> ELSE <<>>)
                  \o <<" {">>,
               <<"        // Implementation">>,
               <<"    }">>>>)

RsFormatTrait(t) ==
    Then(Collect(MapSeq(RsFormatMethod, t.methods)),
         LAMBDA ms : Ret(<<<<"trait ", Fmt(t.name), " {">>>> \o Flatten(ms) \o <<<<"}">>>>))

\* structure.get('implementations', []): the analyser's key is 'impls', so
\* the list is empty; enums, functions and globals are not read at all
RsFormatStructure(s) ==
    Then(Collect(MapSeq(RsFormatTrait, s.traits)),
         LAMBDA traits :
           Ret(JoinNL(
              Flatten(MapSeq(LAMBDA m : <<RsFormatModule(m), EmptyText>>, s.modules))
              \o Flatten(MapSeq(LAMBDA x : <<RsFormatStruct(x), EmptyText>>, s.structs))
              \o Flatten(MapSeq(LAMBDA t : <<t, EmptyText>>, traits)))))

-----------------------------------------------------------------------------
(* C/C++ sources: the trees tree-sitter-cpp yields *)

CppInclude(k) ==
    Node("preproc_include", Lbl("#include <h", k) \o ">",
         <<Tok("#include"), Node("system_lib_string", Lbl("<h", k) \o ">", <<>>)>>)

\* a data member: int x;
CppField ==
    Node("field_declaration", "",
         <<Node("primitive_type", "int", <<>>), Node("field_identifier", "x", <<>>), Tok(";")>>)

CppFieldList(members) ==
    Node("field_declaration_list", "", <<Tok("{")>> \o members \o <<Tok("}")>>)

CppStruct(k) ==
    Node("struct_specifier", "",
         <<Tok("struct"), Node("type_identifier", Lbl("S", k), <<>>), CppFieldList(<<CppField>>)>>)

CppEnum(k) ==
    Node("enum_specifier", "",
         <<Tok("enum"), Node("type_identifier", Lbl("E", k), <<>>),
           Node("enumerator_list", "",
                <<Tok("{"), Node("enumerator", "A", <<Node("identifier", "A", <<>>)>>), Tok("}")>>)>>)

\* T g{0};  an init_declarator without '='
CppGlobalBrace(k) ==
    Node("declaration", "",
         <<Node("type_identifier", "T", <<>>),
           Node("init_declarator", "",
                <<Node("identifier", Lbl("g", k), <<>>), Node("initializer_list", "{0}", <<>>)>>),
           Tok(";")>>)

\* T g = 0;
CppGlobalEq(k) ==
    Node("declaration", "",
         <<Node("type_identifier", "T", <<>>),
           Node("init_declarator", "",
                <<Node("identifier", Lbl("g", k), <<>>), Tok("="), Node("number_literal", "0", <<>>)>>),
           Tok(";")>>)

CppNamespace(k, items) ==
    Node("namespace_definition", "",
         <<Tok("namespace"), Node("namespace_identifier", Lbl("N", k), <<>>),
           Node("declaration_list", "", <<Tok("{")>> \o items \o <<Tok("}")>>)>>)

CppParam ==
    Node("parameter_declaration", "T a",
         <<Node("type_identifier", "T", <<>>), Node("identifier", "a", <<>>)>>)

\* T f() { body }  or  T f(T a) { body }; a member function's name is a
\* field_identifier
CppFunction(k, nameType, withParam, body) ==
    Node("function_definition", "",
         <<Node("type_identifier", "T", <<>>),
           Node("function_declarator", "",
                <<Node(nameType, Lbl("f", k), <<>>),
                  Node("parameter_list", "",
                       <<Tok("(")>> \o (IF withParam THEN <<CppParam>> ELSE <<>>) \o <<Tok(")")>>)>>),
           Node("compound_statement", "", <<Tok("{")>> \o body \o <<Tok("}")>>)>>)

CppClass(k, members) ==
    Node("class_specifier", "",
         <<Tok("class"), Node("type_identifier", Lbl("K", k), <<>>),
           CppFieldList(<<CppField>> \o members)>>)

CppItem(kind, k, ctx, body) ==
    CASE kind = "include" -> CppInclude(k)
      [] kind = "struct" -> CppStruct(k)
      [] kind = "enum" -> CppEnum(k)
      [] kind = "global" -> CppGlobalBrace(k)
      [] kind = "globaleq" -> CppGlobalEq(k)
      [] kind = "namespace" -> CppNamespace(k, body)
      [] kind = "class" -> CppClass(k, body)
      [] kind = "fn" ->
           CppFunction(k, IF ctx = "methods" THEN "field_identifier" ELSE "identifier", FALSE, body)
      [] kind = "fnp" ->
           CppFunction(k, IF ctx = "methods" THEN "field_identifier" ELSE "identifier", TRUE, body)

\* a file, a namespace or a function body holds any item but an include (a
\* body: declarations and local types); a class holds member functions
CppKinds(ctx) ==
    CASE ctx = "file" ->
           <<"include", "struct", "enum", "global", "globaleq", "namespace", "class", "fn", "fnp">>
      [] ctx = "items" ->
           <<"struct", "enum", "global", "globaleq", "namespace", "class", "fn", "fnp">>
      [] ctx = "body" -> <<"struct", "global">>
      [] ctx = "methods" -> <<"fn", "fnp">>
CppBodyKinds == {"namespace", "class", "fn", "fnp"}
CppBodyCtx(kind) ==
    CASE kind = "namespace" -> "items"
      [] kind = "class" -> "methods"
      [] OTHER -> "body"

CppContexts == {"file", "items", "body", "methods"}

\* every item list of exactly n items, numbered in source order from base
\* on; shorter[k + 1][b][ctx] lists the lists of k < n items from b on
CppItems(shorter, n, base, ctx) ==
    IF base + n > MaxNodes THEN <<>>
    ELSE Flatten(MapSeq(
           LAMBDA kb : Cross(shorter[kb[2] + 1][base + 1][CppBodyCtx(kb[1])],
                             shorter[n - kb[2]][base + 1 + kb[2]][ctx],
                             LAMBDA body, rest : <<CppItem(kb[1], base, ctx, body)>> \o rest),
           Starts(CppKinds(ctx), CppBodyKinds, n)))

RECURSIVE CppItemLists(_)
CppItemLists(n) ==
    IF n = 0 THEN <<[base \in 0..(MaxNodes + 1) |-> [ctx \in CppContexts |-> <<<<>>>>]]>>
    ELSE Let(CppItemLists(n - 1),
             LAMBDA shorter :
               Append(shorter, [base \in 0..(MaxNodes + 1) |->
                                  [ctx \in CppContexts |-> CppItems(shorter, n, base, ctx)]]))

CppTranslationUnit(items) == Node("translation_unit", "", items)

CppTrees ==
    Let(CppItemLists(MaxNodes),
        LAMBDA lists :
          {CppTranslationUnit(s) :
             s \in Range(Flatten([n \in 1..(MaxNodes + 1) |-> lists[n][0]["file"]]))})

-----------------------------------------------------------------------------
(* CppAnalyser *)

\* name and value come from the init_declarator children; on an '=' child of
\* one the value is the text of its children[1]: an IndexError on a token
CppDeclInfo(node) ==
    LET inits == Flatten(MapSeq(LAMBDA d : d.children, OfType(node.children, "init_declarator")))
        eqs == OfType(inits, "=")
    IN IF \E i \in DOMAIN eqs : Len(eqs[i].children) < 2 THEN Raise("IndexError")
       ELSE LET info == [name |-> LastText(inits, "identifier", ""),
                         type |-> LastText(node.children, "type_identifier", ""),
                         value |-> IF eqs = <<>> THEN NoneS
                                   ELSE extract_node_text(eqs[Len(eqs)].children[2])]
            IN Ret(IF info.name # "" THEN Some(info) ELSE NoInfo)

CppExtractGlobalInfo(node) == CppDeclInfo(node)

CppExtractFieldInfo(node) == CppDeclInfo(node)

CppExtractParam(param) ==
    [type |-> LastText(param.children, "type_identifier", ""),
     name |-> LastText(param.children, "identifier", "")]

CppExtractFunctionInfo(node) ==
    LET decl == Flatten(MapSeq(LAMBDA d : d.children, OfType(node.children, "function_declarator")))
    IN [name |-> LastText(decl, "identifier", ""),
        return_type |-> LastText(node.children, "type_identifier", ""),
        parameters |->
           MapSeq(CppExtractParam,
                  OfType(Flatten(MapSeq(LAMBDA l : l.children, OfType(decl, "parameter_list"))),
                         "parameter_declaration")),
        is_virtual |-> HasType(node.children, "virtual_specifier"),
        is_static |-> HasType(node.children, "static_specifier"),
        is_const |-> HasType(node.children, "const_specifier")]

\* the members of the field_declaration_list children of a class or struct
CppMembers(node) ==
    Flatten(MapSeq(LAMBDA l : l.children, OfType(node.children, "field_declaration_list")))

\* base_text.split(',') with each part stripped
SplitBases(t) == <<"split(" \o t \o ")">>

CppBases(node) ==
    IF HasType(node.children, "base_class_clause")
    THEN SplitBases(LastText(node.children, "base_class_clause", ""))
    ELSE <<>>

CppExtractClassInfo(node) ==
    Then(Collect(MapSeq(CppExtractFieldInfo, OfType(CppMembers(node), "field_declaration"))),
         LAMBDA fields :
           Ret([name |-> LastText(node.children, "type_identifier", ""),
                base_classes |-> CppBases(node),
                access_specifiers |->
                   MapSeq(extract_node_text, OfType(node.children, "access_specifier")),
                fields |-> Somes(fields),
                methods |->
                   MapSeq(CppExtractFunctionInfo, OfType(CppMembers(node), "function_definition"))]))

CppExtractStructInfo(node) ==
    Then(Collect(MapSeq(CppExtractFieldInfo, OfType(CppMembers(node), "field_declaration"))),
         LAMBDA fields : Ret([name |-> LastText(node.children, "type_identifier", ""),
                              base_classes |-> CppBases(node),
                              fields |-> Somes(fields)]))

\* enumerator.children[0] raises IndexError on an enumerator without children
CppEnumerator(e) ==
    IF Len(e.children) < 1 THEN Raise("IndexError")
    ELSE Ret([name |-> extract_node_text(e.children[1]),
              value |-> IF Len(e.children) > 1 THEN extract_node_text(e.children[2]) ELSE NoneS])

CppExtractEnumInfo(node) ==
    Then(Collect(MapSeq(CppEnumerator,
                 OfType(Flatten(MapSeq(LAMBDA l : l.children,
                                       OfType(node.children, "enumerator_list"))),
                        "enumerator"))),
         LAMBDA es : Ret([name |-> LastText(node.children, "type_identifier", ""),
                          enumerators |-> es]))

CppExtractTypedefInfo(node) ==
    [name |-> LastText(node.children, "type_identifier", ""),
     type |-> LastText(node.children, "type_descriptor", "")]

CppEmptyNamespace ==
    [name |-> "", classes |-> <<>>, structs |-> <<>>, enums |-> <<>>,
     typedefs |-> <<>>, functions |-> <<>>, globals |-> <<>>]

CppEmptyStructure ==
    [includes |-> <<>>, namespaces |-> <<>>, classes |-> <<>>, structs |-> <<>>,
     enums |-> <<>>, typedefs |-> <<>>, functions |-> <<>>, globals |-> <<>>]

\* the record (a namespace record or the root structure) with the record of
\* one declaration appended to the list of its kind; isGlobalScope is the
\* `not is_inside_function` test, which only the root walk makes
CppAddDecl(node, rec, isGlobalScope) ==
    CASE node.type = "class_specifier" ->
           Then(CppExtractClassInfo(node), LAMBDA c : Ret([rec EXCEPT !.classes = Append(@, c)]))
      [] node.type = "struct_specifier" ->
           Then(CppExtractStructInfo(node), LAMBDA x : Ret([rec EXCEPT !.structs = Append(@, x)]))
      [] node.type = "enum_specifier" ->
           Then(CppExtractEnumInfo(node), LAMBDA e : Ret([rec EXCEPT !.enums = Append(@, e)]))
      [] node.type = "type_definition" ->
           Ret([rec EXCEPT !.typedefs = Append(@, CppExtractTypedefInfo(node))])
      [] node.type = "function_definition" ->
           Ret([rec EXCEPT !.functions = Append(@, CppExtractFunctionInfo(node))])
      [] node.type = "declaration" /\ isGlobalScope ->
           Then(CppExtractGlobalInfo(node),
                LAMBDA g : IF g.some THEN Ret([rec EXCEPT !.globals = Append(@, g.val)])
                           ELSE Ret(rec))
      [] OTHER -> Ret(rec)

RECURSIVE CppNamespaceStmts(_, _)
CppNamespaceStmts(stmts, acc) ==
    IF stmts = <<>> \/ acc.raised THEN acc
    ELSE CppNamespaceStmts(Tail(stmts), CppAddDecl(Head(stmts), acc.val, TRUE))

CppExtractNamespaceInfo(node) ==
    CppNamespaceStmts(
        Flatten(MapSeq(LAMBDA l : l.children, OfType(node.children, "declaration_list"))),
        Ret([CppEmptyNamespace EXCEPT !.name = LastText(node.children, "identifier", "")]))

\* the dispatch of traverse(node, is_inside_function), before it recurses
CppVisit(node, inFn, st) ==
    CASE node.type = "preproc_include" ->
           Ret([st EXCEPT !.includes = Append(@, extract_node_text(node))])
      [] node.type = "namespace_definition" ->
           Then(CppExtractNamespaceInfo(node),
                LAMBDA n : Ret([st EXCEPT !.namespaces = Append(@, n)]))
      [] OTHER -> CppAddDecl(node, st, ~inFn)

RECURSIVE CppTraverse(_, _, _)
RECURSIVE CppTraverseAll(_, _, _)

\* the children of a function_definition are walked with is_inside_function
CppTraverse(node, inFn, acc) ==
    IF acc.raised THEN acc
    ELSE CppTraverseAll(node.children, inFn \/ node.type = "function_definition",
                        CppVisit(node, inFn, acc.val))

CppTraverseAll(children, inFn, acc) ==
    IF children = <<>> \/ acc.raised THEN acc
    ELSE CppTraverseAll(Tail(children), inFn, CppTraverse(Head(children), inFn, acc))

CppExtractStructure(tree) == CppTraverse(tree, FALSE, Ret(CppEmptyStructure))

-----------------------------------------------------------------------------
(* CppFormatter *)

\* bool(value) of an optional str
TruthyS(v) == v # NoneS /\ v # ""

CppFormatField(f) ==
    <<"    ", Fmt(f.type), " ", Fmt(f.name)>>
    \o (IF TruthyS(f.value) THEN <<" = ", Fmt(f.value)>> ELSE <<>>)
    \o <<";">>

\* ", ".join(parameters) raises TypeError on a list that holds dicts; the
\* analyser's records have no 'is_pure_virtual'
CppFormatMethod(m) ==
    IF m.parameters # <<>> THEN Raise("TypeError")
    ELSE Ret(<<"    ">> \o (IF m.is_virtual THEN <<"virtual", " ">> ELSE <<>>)
             \o <<Fmt(m.return_type), " ", Fmt(m.name), "(", ")">>
             \o (IF m.is_const THEN <<" ", "const">> ELSE <<>>)
             \o <<";">>)

\* the analyser's namespace records have no 'content' and its class records
\* no 'inheritance': both read as empty
CppFormatNamespace(n) ==
    <<Line(<<"namespace ", Fmt(n.name), " {">>), Line(<<"}">>), EmptyText>>

CppFormatClassLines(c) ==
    Then(Collect(MapSeq(CppFormatMethod, c.methods)),
         LAMBDA ms : Ret(<<Line(<<"class ", Fmt(c.name), " {">>)>>
                         \o MapSeq(LAMBDA f : Line(CppFormatField(f)), c.fields)
                         \o MapSeq(LAMBDA m : Line(m), ms)
                         \o <<Line(<<"};">>), EmptyText>>))

\* structs, enums, typedefs, functions and globals are not read
CppFormatStructure(s) ==
    Then(Collect(MapSeq(CppFormatClassLines, s.classes)),
         LAMBDA classes :
           Ret(JoinNL(
              MapSeq(LAMBDA i : Line(<<"#include ", i>>), s.includes)
              \o (IF s.includes # <<>> THEN <<EmptyText>> ELSE <<>>)
              \o Flatten(MapSeq(CppFormatNamespace, s.namespaces))
              \o Flatten(classes))))

-----------------------------------------------------------------------------
(* Files *)

Paths == {"a.py", "m.rs", "h.h", "x.asm", "run"}

\* the paths language detection is asked about
DetectPaths == Paths \cup {"B.PY"}

Absent == "<absent>"

\* the contents a file of each path is written with
ContentsOf(p) ==
    CASE p = "a.py" -> {"py1", "py2"}
      [] p = "m.rs" -> {"rs1", "rs2"}
      [] p = "h.h" -> {"c1"}
      [] p = "x.asm" -> {"asm1"}
      [] p = "run" -> {"shpy", "sh1"}

\* the contents language detection meets
DetectContents == {"py1", "py2", "rs1", "rs2", "c1", "asm1", "shpy", "sh1", "shnode", "note"}

\* f.readline().strip() of a file holding content c
FirstLine(c) ==
    CASE c = "py1" -> "import m0"
      [] c = "py2" -> "class K0:"
      [] c = "rs1" -> "pub mod M0 {"
      [] c = "rs2" -> "static G0: i32 = 0;"
      [] c = "c1" -> "#include <h0>"
      [] c = "asm1" -> "mov eax, 1"
      [] c = "shpy" -> "#!/usr/bin/env python"
      [] c = "sh1" -> "#!/bin/sh"
      [] c = "shnode" -> "#!/usr/bin/env node"
      [] c = "note" -> "# python and node notes"

\* first_line.startswith('#!')
IsShebang(line) == line \in {"#!/usr/bin/env python", "#!/bin/sh", "#!/usr/bin/env node"}

\* word in first_line
InLine(word, line) ==
    \/ word = "python" /\ line \in {"#!/usr/bin/env python", "# python and node notes"}
    \/ word = "node" /\ line \in {"#!/usr/bin/env node", "# python and node notes"}

\* parser.parse(bytes(source_code, 'utf8')) of content c
SrcTree(c) ==
    CASE c \in {"py1", "shpy"} -> PyModule(<<PyImport(0), PyDef(1, <<PyImport(2)>>)>>)
      [] c = "py2" -> PyModule(<<PyClass(0, <<PyDef(1, <<>>)>>)>>)
      [] c = "rs1" -> RsSourceFile(<<RsMod(0, <<RsStruct(1)>>), RsTrait(2, <<>>)>>)
      [] c = "rs2" -> RsSourceFile(<<RsStatic(0)>>)
      [] c = "c1" -> CppTranslationUnit(<<CppInclude(0), CppStruct(1)>>)

\* f.read() of content c: the raw text of the file
RawContent(c) == <<<<FirstLine(c)>>, <<"<rest of " \o c \o ">">>>>

\* Path(file_path).suffix
Suffix(p) ==
    CASE p = "a.py" -> ".py"
      [] p = "m.rs" -> ".rs"
      [] p = "h.h" -> ".h"
      [] p = "x.asm" -> ".asm"
      [] p = "run" -> ""
      [] p = "B.PY" -> ".PY"

\* str.lower() on the suffixes and language ids in use
Lower(x) ==
    CASE x = "C" -> "c"
      [] x \in {"Go", "GO"} -> "go"
      [] x = ".PY" -> ".py"
      [] OTHER -> x

-----------------------------------------------------------------------------
(* BaseAnalyser *)

EXTENSION_TO_LANGUAGE ==
    [e \in {".py", ".js", ".ts", ".jsx", ".tsx", ".java", ".cpp", ".cc", ".cxx", ".c", ".h",
            ".hpp", ".rs"} |->
        CASE e = ".py" -> "python"
          [] e \in {".js", ".jsx"} -> "javascript"
          [] e \in {".ts", ".tsx"} -> "typescript"
          [] e = ".java" -> "java"
          [] e \in {".cpp", ".cc", ".cxx", ".hpp"} -> "cpp"
          [] e \in {".c", ".h"} -> "c"
          [] e = ".rs" -> "rust"]

\* the first line of the file looked at before the extension
detect_by_content_first(f, file_path) ==
    LET ext == Lower(Suffix(file_path))
        first_line == IF f[file_path] = Absent THEN "" ELSE FirstLine(f[file_path])
    IN IF IsShebang(first_line) /\ InLine("python", first_line) THEN "python"
       ELSE IF IsShebang(first_line) /\ InLine("node", first_line) THEN "javascript"
       ELSE IF ext \in DOMAIN EXTENSION_TO_LANGUAGE THEN EXTENSION_TO_LANGUAGE[ext]
       ELSE NoneS

\* the language of a file path on file system f, or None; open() failing on
\* a missing file is swallowed by the except clause
detect_language(f, file_path) ==
    LET ext == Lower(Suffix(file_path))
    IN IF ext \in DOMAIN EXTENSION_TO_LANGUAGE THEN EXTENSION_TO_LANGUAGE[ext]
       ELSE IF f[file_path] = Absent THEN NoneS
       ELSE LET first_line == FirstLine(f[file_path])
            IN IF IsShebang(first_line)
               THEN IF InLine("python", first_line) THEN "python"
                    ELSE IF InLine("node", first_line) THEN "javascript"
                    ELSE NoneS
               ELSE NoneS

LangIds == {"python", "javascript", "typescript", "java", "cpp", "c", "rust", "go"}

\* self.parsers = {} of a new analyser; 0 stands for no entry
NoParsers == [l \in LangIds |-> 0]

\* get_parser_for_language on an analyser whose cache is cache, when serial
\* numbers the next parser instance constructed: the instance returned (0
\* for None) and the cache afterwards
get_parser_for_language(cache, language, inst, serial) ==
    IF cache[language] = 0
    THEN IF language \in inst
         THEN [parser |-> serial, cache |-> [cache EXCEPT ![language] = serial], built |-> TRUE]
         ELSE [parser |-> 0, cache |-> cache, built |-> FALSE]
    ELSE [parser |-> cache[language], cache |-> cache, built |-> FALSE]

-----------------------------------------------------------------------------
(* The factories *)

DefaultAnalysers ==
    [l \in LangIds |->
        CASE l = "python" -> "PythonAnalyser"
          [] l \in {"javascript", "typescript"} -> "JavaScriptAnalyser"
          [] l = "java" -> "JavaAnalyser"
          [] l \in {"cpp", "c"} -> "CppAnalyser"
          [] l = "rust" -> "RustAnalyser"
          [] OTHER -> NoneS]

DefaultFormatters ==
    [l \in LangIds |->
        CASE l = "python" -> "PythonFormatter"
          [] l = "javascript" -> "JavaScriptFormatter"
          [] l = "java" -> "JavaFormatter"
          [] l = "cpp" -> "CppFormatter"
          [] l = "rust" -> "RustFormatter"
          [] OTHER -> NoneS]

\* cls._analysers.get(language.lower()): the class looked up
get_analyser(reg, language) == reg[Lower(language)]

\* a lookup that removes what it finds (dict.pop)
AfterPop(reg, language) == [reg EXCEPT ![Lower(language)] = NoneS]

\* the registry after the lookup: dict.get leaves the dict as it was
AfterGet(reg, language) == reg

\* cls._formatters.get(language.lower())
get_formatter(reg, language) == reg[Lower(language)]

\* a registration that drops every other entry
register_alone(reg, language, class) ==
    [l \in DOMAIN reg |-> IF l = Lower(language) THEN class ELSE NoneS]

\* cls._analysers[language.lower()] = analyser_class
register(reg, language, class) == [reg EXCEPT ![Lower(language)] = class]

-----------------------------------------------------------------------------
(* Compressor *)

\* analyser.extract_structure(tree, source_code) of an analyser of a class
extract_structure(class, tree) ==
    CASE class = "PythonAnalyser" -> PyExtractStructure(tree)
      [] class = "RustAnalyser" -> RsExtractStructure(tree)
      [] class = "CppAnalyser" -> CppExtractStructure(tree)

\* formatter.format_structure(structure) of a formatter of a class
format_structure(class, structure) ==
    CASE class = "PythonFormatter" -> PyFormatStructure(structure)
      [] class = "RustFormatter" -> RsFormatStructure(structure)
      [] class = "CppFormatter" -> CppFormatStructure(structure)

\* f"# File: {file_path}\n# Language: {language}\n\n"
Header(file_path, language) ==
    <<<<"# File: ", file_path>>, <<"# Language: ", language>>, EmptyLine>>

Step(stage, out, did) == [stage |-> stage, out |-> out, built |-> did]

\* the body of the try block: the stage it ends at, what it returns or
\* raises there, and whether the analyser made for the call built a parser
generate_body(f, areg, freg, inst, serial, file_path) ==
    LET language == detect_language(f, file_path)
    IN IF language = NoneS
       THEN Step("detect", Ret(Line(<<"# Error: Could not detect language for ", file_path>>)),
                 FALSE)
       ELSE
       LET analyser == get_analyser(areg, language)
       IN IF analyser = NoneS
          THEN Step("analyser",
                    Ret(Line(<<"# Error: No analyser available for language: ", language>>)),
                    FALSE)
          ELSE
          LET got == get_parser_for_language(NoParsers, language, inst, serial)
          IN IF got.parser = 0
             THEN Step("parser",
                       Ret(Line(<<"# Error: No parser available for language: ", language>>)),
                       FALSE)
             ELSE IF f[file_path] = Absent
             THEN Step("read", Raise("FileNotFoundError"), got.built)
             ELSE
             Let(extract_structure(analyser, SrcTree(f[file_path])),
                 LAMBDA structure :
                   IF structure.raised
                   THEN Step("extract", structure, got.built)
                   ELSE
                   LET formatter == get_formatter(freg, language)
                   IN IF formatter = NoneS
                      THEN Step("formatter",
                                Ret(Line(<<"# Error: No formatter available for language: ",
                                           language>>)),
                                got.built)
                      ELSE
                      Let(format_structure(formatter, structure.val),
                          LAMBDA content :
                            IF content.raised
                            THEN Step("render", content, got.built)
                            ELSE Step("done",
                                      Ret(Header(file_path, language) \o content.val),
                                      got.built)))

\* a call without the except clause: what the body raises reaches the caller
NoCatch(body, file_path) == body

\* except Exception as e: return f"# Error analyzing {file_path}: {str(e)}"
Catch(body, file_path) ==
    IF body.raised THEN Ret(Line(<<"# Error analyzing ", file_path, ": ", body.exc>>))
    ELSE body

generate_compressed_prompt(f, areg, freg, inst, serial, file_path) ==
    [generate_body(f, areg, freg, inst, serial, file_path) EXCEPT !.out = Catch(@, file_path)]

\* the analyser registry after a call: get_analyser runs once a language
\* was detected
AnalysersAfter(f, areg, file_path) ==
    LET language == detect_language(f, file_path)
    IN IF language = NoneS THEN areg ELSE AfterGet(areg, language)

RECURSIVE SumOver(_, _)
SumOver(S, fn) ==
    IF S = {} THEN 0 ELSE LET x == CHOOSE x \in S : TRUE IN fn[x] + SumOver(S \ {x}, fn)

\* the built counts after a call that did or did not build a parser
BuiltAfter(b, f, file_path, did) ==
    IF did THEN [b EXCEPT ![detect_language(f, file_path)] = @ + 1] ELSE b

-----------------------------------------------------------------------------
(* SpecTree: one file's tree through extract_structure and format_structure *)

ALangs == {"python", "rust", "cpp"}

TreesOf(lang) ==
    CASE lang = "python" -> PyTrees
      [] lang = "rust" -> RsTrees
      [] lang = "cpp" -> CppTrees

NoEntry == [present |-> FALSE, content |-> EmptyText, is_compressed |-> FALSE]

NoMemo == [called |-> FALSE, comp |-> 0, out |-> Ret(EmptyText)]

NoCall ==
    [op |-> "none", comp |-> 0, path |-> "", language |-> NoneS, stage |-> "",
     out |-> Ret(EmptyText), parser |-> 0, prev |-> NoMemo]

InitialContent(p) ==
    CASE p = "a.py" -> "py1"
      [] p = "m.rs" -> "rs1"
      [] p = "h.h" -> "c1"
      [] p = "x.asm" -> "asm1"
      [] p = "run" -> "shpy"
      [] OTHER -> Absent

Threads == 1..2

\* a thread outside any call; file_path .. formatter are the local variables
\* of the call it is in, arg and out the call as its caller sees it, trace
\* the steps of the call done so far
IdleThread ==
    [pc |-> "idle", op |-> "none", arg |-> "", out |-> Ret(EmptyText), got |-> 0,
     returned |-> FALSE, trace |-> <<>>,
     self |-> 0, file_path |-> "", language |-> NoneS, analyser |-> NoneS, parser |-> 0,
     source_code |-> Absent, structure |-> Ret(<<>>), formatter |-> NoneS]

\* CodeToPrompt(root, compress=compress, output_format=output_format)
NewCodeToPrompt(compress, output_format) ==
    [compress |-> compress, output_format |-> output_format, files_processed |-> FALSE,
     processed_files |-> [p \in Paths |-> NoEntry], xml_index |-> 1, parts |-> <<>>]

\* the directory the file selector is opened on: root holds the directory d
\* and c.py, d holds the directory e, a.py and b.py, e holds x.py
SelDirs == {"root", "d", "d/e"}
SelFiles == {"c.py", "d/a.py", "d/b.py", "d/e/x.py"}
SelNodes == SelDirs \cup SelFiles

\* sorted(dir_path.iterdir()), directories first
DirChildren(dir_path) ==
    CASE dir_path = "root" -> <<"d", "c.py">>
      [] dir_path = "d" -> <<"d/e", "d/a.py", "d/b.py">>
      [] dir_path = "d/e" -> <<"d/e/x.py">>

\* no FileSelectorApp
NoApp ==
    [mounted |-> FALSE, loaded |-> [d \in SelDirs |-> FALSE],
     expanded |-> [d \in SelDirs |-> FALSE], selected |-> [n \in SelNodes |-> FALSE],
     cursor |-> NoneS, exited |-> FALSE, result |-> {}]

\* the state a process is in with a CodeToPrompt object on the files given
\* and a file selector: the registries as the factories declare them, no
\* parser built
StartApp(files, inst, object, selector) ==
    /\ app = selector
    /\ anode = -1
    /\ threads = [t \in Threads |-> IdleThread]
    /\ made = [c \in 1..2 |-> [l \in LangIds |-> 0]]
    /\ fs = files
    /\ analysers = DefaultAnalysers
    /\ formatters = DefaultFormatters
    /\ installed = inst
    /\ parsers = [c \in 1..2 |-> NoParsers]
    /\ built = [l \in LangIds |-> 0]
    /\ last = NoCall
    /\ memo = [p \in Paths |-> NoMemo]
    /\ ctp = object
    /\ steps = 0

\* the same without a file selector
StartObject(files, inst, object) == StartApp(files, inst, object, NoApp)

\* the state a process starts in on the files given, nothing processed
StartOn(files, inst, compress) ==
    StartObject(files, inst, NewCodeToPrompt(compress, "default"))

\* the state the process starts in with every file of the directory present
Start(inst, compress) == StartOn([p \in DetectPaths |-> InitialContent(p)], inst, compress)

InitTree ==
    /\ alang \in ALangs
    /\ atree \in TreesOf(alang)
    /\ apc = "parsed"
    /\ astruct = Ret(<<>>)
    /\ aout = Ret(EmptyText)
    /\ Start(LangIds \ {"go"}, FALSE)

\* structure = analyser.extract_structure(tree, source_code)
Extract ==
    /\ apc = "parsed"
    /\ astruct' = extract_structure(DefaultAnalysers[alang], atree)
    /\ apc' = "extracted"
    /\ UNCHANGED <<alang, atree, aout>>
    /\ UNCHANGED <<cvars, tvars>>

\* content = formatter.format_structure(structure)
Render ==
    /\ apc = "extracted"
    /\ ~astruct.raised
    /\ aout' = format_structure(DefaultFormatters[alang], astruct.val)
    /\ apc' = "rendered"
    /\ UNCHANGED <<alang, atree, astruct>>
    /\ UNCHANGED <<cvars, tvars>>

NextTree == Extract \/ Render

SpecTree == InitTree /\ [][NextTree]_vars

-----------------------------------------------------------------------------
(* Spec: compressors, registries and the file system of one process *)

Compressors == 1..2

\* the grammar sets of the environments considered: everything installed,
\* or the Rust grammar missing
Environments == {LangIds \ {"go"}, LangIds \ {"go", "rust"}}

\* SpecTree's variables outside SpecTree
TreeIdle ==
    /\ alang = "python"
    /\ atree = PyModule(<<>>)
    /\ apc = "parsed"
    /\ astruct = Ret(<<>>)
    /\ aout = Ret(EmptyText)

Init ==
    /\ \E inst \in Environments : Start(inst, FALSE)
    /\ TreeIdle

Serial == SumOver(LangIds, built) + 1

\* Compressor c: generate_compressed_prompt(file_path)
Generate(c, file_path) ==
    /\ steps < MaxSteps
    /\ \E r \in {generate_compressed_prompt(fs, analysers, formatters, installed, Serial,
                                           file_path)} :
          /\ last' = [op |-> "generate", comp |-> c, path |-> file_path,
                      language |-> detect_language(fs, file_path), stage |-> r.stage,
                      out |-> r.out, parser |-> 0, prev |-> memo[file_path]]
          /\ memo' = [memo EXCEPT ![file_path] = [called |-> TRUE, comp |-> c, out |-> r.out]]
          /\ built' = BuiltAfter(built, fs, file_path, r.built)
    /\ analysers' = AnalysersAfter(fs, analysers, file_path)
    /\ steps' = steps + 1
    /\ UNCHANGED <<fs, formatters, installed, parsers, ctp, avars, tvars>>

\* Compressor c: base_analyser.get_parser_for_language(language)
GetParser(c, language) ==
    /\ steps < MaxSteps
    /\ LET got == get_parser_for_language(parsers[c], language, installed, Serial)
       IN /\ parsers' = [parsers EXCEPT ![c] = got.cache]
          /\ built' = IF got.built THEN [built EXCEPT ![language] = @ + 1] ELSE built
          /\ last' = [NoCall EXCEPT !.op = "get_parser", !.comp = c, !.language = language,
                                    !.parser = got.parser]
    /\ steps' = steps + 1
    /\ UNCHANGED <<fs, analysers, formatters, installed, memo, ctp, avars, tvars>>

\* AnalyserFactory.register_analyser(language, analyser_class)
RegisterAnalyser(language, class) ==
    /\ steps < MaxSteps
    /\ analysers' = register(analysers, language, class)
    /\ memo' = [p \in Paths |-> NoMemo]
    /\ last' = [NoCall EXCEPT !.op = "register_analyser", !.language = language]
    /\ steps' = steps + 1
    /\ UNCHANGED <<fs, formatters, installed, parsers, built, ctp, avars, tvars>>

\* FormatterFactory.register_formatter(language, formatter_class)
RegisterFormatter(language, class) ==
    /\ steps < MaxSteps
    /\ formatters' = register(formatters, language, class)
    /\ memo' = [p \in Paths |-> NoMemo]
    /\ last' = [NoCall EXCEPT !.op = "register_formatter", !.language = language]
    /\ steps' = steps + 1
    /\ UNCHANGED <<fs, analysers, installed, parsers, built, ctp, avars, tvars>>

\* the environment rewrites a file
WriteFile(file_path, c) ==
    /\ steps < MaxSteps
    /\ fs[file_path] # c
    /\ fs' = [fs EXCEPT ![file_path] = c]
    /\ memo' = [memo EXCEPT ![file_path] = NoMemo]
    /\ last' = [NoCall EXCEPT !.op = "write", !.path = file_path]
    /\ steps' = steps + 1
    /\ UNCHANGED <<analysers, formatters, installed, parsers, built, ctp, avars, tvars>>

\* the environment removes a file
DeleteFile(file_path) ==
    /\ steps < MaxSteps
    /\ fs[file_path] # Absent
    /\ fs' = [fs EXCEPT ![file_path] = Absent]
    /\ memo' = [memo EXCEPT ![file_path] = NoMemo]
    /\ last' = [NoCall EXCEPT !.op = "delete", !.path = file_path]
    /\ steps' = steps + 1
    /\ UNCHANGED <<analysers, formatters, installed, parsers, built, ctp, avars, tvars>>

\* utils.read_file_safely(file_path, show_line_numbers=False): the text of
\* the file, None when it cannot be read
read_file_safely(f, file_path) ==
    IF f[file_path] = Absent THEN PyNone ELSE RawContent(f[file_path])

\* sorted(files_to_process): the files of the directory walk
FilesToProcess(f) ==
    SelectSeq(<<"a.py", "h.h", "m.rs", "run", "x.asm">>, LAMBDA p : f[p] # Absent)

\* one round of the loop of _process_local_files on file_path; acc holds
\* processed_files, the analyser registry and the built counts so far
ProcessFile(c, f, file_path, acc) ==
    Let(generate_compressed_prompt(f, acc.areg, formatters, installed,
                                   SumOver(LangIds, acc.built) + 1, file_path),
        LAMBDA r :
          LET compressed == c.compress /\ ~r.out.raised /\ Truthy(r.out.val)
              content == IF compressed THEN r.out.val ELSE read_file_safely(f, file_path)
          IN IF c.compress /\ r.out.raised
             THEN [acc EXCEPT !.raised = TRUE]
             ELSE [raised |-> FALSE,
                   files |-> IF content # PyNone
                             THEN [acc.files EXCEPT ![file_path] =
                                     [present |-> TRUE, content |-> content,
                                      is_compressed |-> compressed]]
                             ELSE acc.files,
                   areg |-> IF c.compress THEN AnalysersAfter(f, acc.areg, file_path)
                            ELSE acc.areg,
                   built |-> IF c.compress THEN BuiltAfter(acc.built, f, file_path, r.built)
                             ELSE acc.built])

RECURSIVE ProcessFiles(_, _, _, _)
ProcessFiles(c, f, files, acc) ==
    IF files = <<>> \/ acc.raised THEN acc
    ELSE ProcessFiles(c, f, Tail(files), ProcessFile(c, f, Head(files), acc))

\* the backtick character, written ^ here: a string of this language
\* cannot hold it
Backtick == "^"

\* the string of n backticks
RECURSIVE Backticks(_)
Backticks(n) == IF n = 0 THEN "" ELSE Backtick \o Backticks(n - 1)

\* the number of backticks of a token that is a run of backticks, 0 for
\* any other token
Ticks(tok) ==
    IF \E n \in 1..(MaxRun + 1) : tok = Backticks(n)
    THEN CHOOSE n \in 1..(MaxRun + 1) : tok = Backticks(n)
    ELSE 0

\* backticks in content, for the string of n backticks
InContent(n, content) ==
    \E i \in DOMAIN content : \E j \in DOMAIN content[i] : Ticks(content[i][j]) >= n

RECURSIVE FenceFrom(_, _)
\* while backticks in content: backticks gets one backtick more
FenceFrom(n, content) == IF InContent(n, content) THEN FenceFrom(n + 1, content) ELSE n

\* the fence of the default format, whatever the content
FenceFixed(content) == 3

\* the number of backticks of the fence of a markdown block
Fence(content) == FenceFrom(3, content)

\* the language EXT_TO_LANG has for the suffix of a path, empty without one
ExtLang(file_path) ==
    CASE Suffix(file_path) = ".py" -> "python"
      [] Suffix(file_path) = ".rs" -> "rust"
      [] Suffix(file_path) = ".h" -> "c"
      [] OTHER -> ""

OutputFormats == {"default", "markdown", "cxml"}

\* _format_file_content(parts, file_path, file_data); acc holds parts and
\* self.xml_index
format_file_content(c, acc, file_path) ==
    LET content == c.processed_files[file_path].content
        lang == ExtLang(file_path)
    IN IF c.processed_files[file_path].is_compressed
       THEN [acc EXCEPT !.parts = @ \o <<content, EmptyText>>]
       ELSE CASE c.output_format = "default" ->
                   [acc EXCEPT !.parts =
                      @ \o <<Line(<<"Relative File Path: ", file_path>>), EmptyText,
                              Line(<<Backticks(3), lang>>), content, Line(<<Backticks(3)>>),
                              EmptyText>>]
              [] c.output_format = "markdown" ->
                   [acc EXCEPT !.parts =
                      @ \o <<Line(<<"## ", file_path>>),
                              Line(<<Backticks(Fence(content)), lang>>), content,
                              Line(<<Backticks(Fence(content))>>), EmptyText>>]
              [] c.output_format = "cxml" ->
                   [parts |-> acc.parts
                                \o <<Line(<<"<document index=\"", ToString(acc.xml_index), "\">">>),
                                      Line(<<"<source>", file_path, "</source>">>),
                                      Line(<<"<document_content>">>), content,
                                      Line(<<"</document_content>">>), Line(<<"</document>">>),
                                      EmptyText>>,
                    xml_index |-> acc.xml_index + 1]
              [] OTHER -> acc

RECURSIVE FormatFiles(_, _, _)
\* for file_path, file_data in sorted_files: self._format_file_content(...)
FormatFiles(c, files, acc) ==
    IF files = <<>> THEN acc
    ELSE FormatFiles(c, Tail(files), format_file_content(c, acc, Head(files)))

\* the keys of processed_files in sorted order
SortedFiles(c) ==
    SelectSeq(<<"a.py", "h.h", "m.rs", "run", "x.asm">>,
              LAMBDA p : c.processed_files[p].present)

\* _format_processed_files(parts) of a local object: the parts and the
\* xml_index it leaves
format_processed_files(c, parts) ==
    LET cxml == c.output_format = "cxml"
        opened == IF cxml THEN Append(parts, Line(<<"<documents>">>)) ELSE parts
        body == IF SortedFiles(c) = <<>>
                THEN [parts |-> Append(opened,
                                       Line(<<"No files found matching the specified criteria.">>)),
                      xml_index |-> c.xml_index]
                ELSE FormatFiles(c, SortedFiles(c), [parts |-> opened, xml_index |-> 1])
    IN [body EXCEPT !.parts = IF cxml THEN Append(@, Line(<<"</documents>">>)) ELSE @]

\* _build_local_prompt(): the object with the parts of its prompt, which
\* is the parts joined by newlines
build_local_prompt(c) ==
    Let(format_processed_files(
            c, <<Line(<<"Project Structure:">>), Line(<<"<tree>">>), EmptyText>>),
        LAMBDA r : [c EXCEPT !.parts = r.parts, !.xml_index = r.xml_index])

\* CodeToPrompt._process_local_files()
ProcessLocalFiles ==
    /\ steps < MaxSteps
    /\ ~ctp.files_processed
    /\ \E done \in {ProcessFiles(ctp, fs, FilesToProcess(fs),
                                   [raised |-> FALSE, files |-> [p \in Paths |-> NoEntry],
                                    areg |-> analysers, built |-> built])} :
          /\ ctp' = IF done.raised
                     THEN [ctp EXCEPT !.processed_files = done.files]
                     ELSE build_local_prompt([ctp EXCEPT !.processed_files = done.files,
                                                         !.files_processed = TRUE])
          /\ analysers' = done.areg
          /\ built' = done.built
          /\ last' = [NoCall EXCEPT !.op = "process",
                                    !.out = IF done.raised THEN Raise("Exception")
                                            ELSE Ret(EmptyText)]
    /\ steps' = steps + 1
    /\ UNCHANGED <<fs, formatters, installed, parsers, memo, avars, tvars>>

Next ==
    \/ \E c \in Compressors, p \in Paths : Generate(c, p)
    \/ \E c \in Compressors, l \in {"python", "rust"} : GetParser(c, l)
    \/ \E l \in {"Go", "C"} : RegisterAnalyser(l, "CppAnalyser")
    \/ \E l \in {"Go", "C"} : RegisterFormatter(l, "CppFormatter")
    \/ \E p \in Paths : \E c \in ContentsOf(p) : WriteFile(p, c)
    \/ \E p \in Paths : DeleteFile(p)

Spec == Init /\ [][Next]_vars

-----------------------------------------------------------------------------
(* SpecCore: a CodeToPrompt object over the directory *)

InitCore ==
    /\ \E compress \in BOOLEAN : Start(LangIds \ {"go"}, compress)
    /\ TreeIdle

NextCore ==
    \/ ProcessLocalFiles
    \/ \E l \in {"Go", "C"} : RegisterFormatter(l, "CppFormatter")
    \/ \E p \in Paths : \E c \in ContentsOf(p) : WriteFile(p, c)
    \/ \E p \in Paths : DeleteFile(p)

SpecCore == InitCore /\ [][NextCore]_vars

-----------------------------------------------------------------------------
(* SpecFormat: the formatting pass over the processed files of an object *)

\* the contents of the processed files: without backticks, with one run of
\* backticks, with runs of three and of MaxRun backticks on two lines
FormatContents ==
    {Line(<<"x">>)}
    \cup {Line(<<"x", Backticks(n), "y">>) : n \in 1..MaxRun}
    \cup {<<<<"x", Backticks(3)>>, <<Backticks(MaxRun), "y">>>>}

\* what processing may leave for a file: nothing, its raw content, or its
\* skeleton when the object compresses
EntriesOf(file_path, compress) ==
    {NoEntry}
    \cup {[present |-> TRUE, content |-> content, is_compressed |-> FALSE]
            : content \in FormatContents}
    \cup (IF compress
          THEN {[present |-> TRUE, content |-> Line(<<"# File: ", file_path>>),
                 is_compressed |-> TRUE]}
          ELSE {})

\* an object whose files have been processed, before its prompt is built
InitFormat ==
    /\ \E compress \in BOOLEAN, output_format \in OutputFormats :
          \E a \in EntriesOf("a.py", compress), h \in EntriesOf("h.h", compress),
             m \in EntriesOf("m.rs", compress) :
             StartObject([p \in DetectPaths |-> InitialContent(p)], LangIds \ {"go"},
                         [NewCodeToPrompt(compress, output_format) EXCEPT
                            !.files_processed = TRUE,
                            !.processed_files =
                               [p \in Paths |-> CASE p = "a.py" -> a
                                                  [] p = "h.h" -> h
                                                  [] p = "m.rs" -> m
                                                  [] OTHER -> NoEntry]])
    /\ TreeIdle

\* self._build_local_prompt(): one formatting pass
BuildLocalPrompt ==
    /\ steps < MaxSteps
    /\ ctp' = build_local_prompt(ctp)
    /\ last' = [NoCall EXCEPT !.op = "build"]
    /\ steps' = steps + 1
    /\ UNCHANGED <<fs, analysers, formatters, installed, parsers, built, memo, avars, tvars>>

NextFormat == BuildLocalPrompt

SpecFormat == InitFormat /\ [][NextFormat]_vars

-----------------------------------------------------------------------------
(* SpecPar: two threads of one process calling into the compressor; a step  *)
(* is what a thread does between two points where the interpreter may       *)
(* switch threads                                                           *)

\* a frame that every thread shares
SharedFrame(t) == 1

\* the frame holding the local variables of the call thread t is in
Frame(t) == t

Local(t) == threads[Frame(t)]

\* thread t returns v from its call
Returned(th, t, v) ==
    [th EXCEPT ![t].trace = Append(@, th[t].pc), ![t].pc = "idle", ![t].out = v,
               ![t].returned = TRUE]

\* a thread that goes on to read the file without asking for the parser
GotoPastParser(th, t, pc) ==
    [th EXCEPT ![t].trace = Append(@, th[t].pc),
               ![t].pc = IF pc = "parser" THEN "read" ELSE pc]

\* thread t has done the step it was at and moves on to pc, the next
\* statement of the try block
Goto(th, t, pc) == [th EXCEPT ![t].trace = Append(@, th[t].pc), ![t].pc = pc]

\* thread t calls compressor.generate_compressed_prompt(file_path)
CallGenerate(t, file_path) ==
    /\ steps < MaxSteps
    /\ threads[t].pc = "idle"
    /\ threads' = [[threads EXCEPT ![t] = [IdleThread EXCEPT !.pc = "detect", !.op = "generate",
                                                             !.arg = file_path]]
                     EXCEPT ![Frame(t)].file_path = file_path]
    /\ steps' = steps + 1
    /\ UNCHANGED <<fs, analysers, formatters, installed, parsers, built, last, memo, ctp>>
    /\ UNCHANGED <<avars, anode, made, app>>

\* 1. language = self.base_analyser.detect_language(file_path)
TDetect(t) ==
    /\ threads[t].pc = "detect"
    /\ LET language == detect_language(fs, Local(t).file_path)
       IN threads' =
            IF language = NoneS
            THEN Returned(threads, t,
                          Ret(Line(<<"# Error: Could not detect language for ",
                                     Local(t).file_path>>)))
            ELSE Goto([threads EXCEPT ![Frame(t)].language = language], t, "analyser")
    /\ UNCHANGED <<cvars, avars, anode, made, app>>

\* 2. analyser = AnalyserFactory.get_analyser(language)
TAnalyser(t) ==
    /\ threads[t].pc = "analyser"
    /\ LET analyser == get_analyser(analysers, Local(t).language)
       IN threads' =
            IF analyser = NoneS
            THEN Returned(threads, t,
                          Ret(Line(<<"# Error: No analyser available for language: ",
                                     Local(t).language>>)))
            ELSE Goto([threads EXCEPT ![Frame(t)].analyser = analyser], t, "parser")
    /\ analysers' = AfterGet(analysers, Local(t).language)
    /\ UNCHANGED <<fs, formatters, installed, parsers, built, last, memo, ctp, steps>>
    /\ UNCHANGED <<avars, anode, made, app>>

\* 3. parser = analyser.get_parser_for_language(language), on the cache of
\* the analyser made in step 2, which no other thread holds
TParser(t) ==
    /\ threads[t].pc = "parser"
    /\ LET got == get_parser_for_language(NoParsers, Local(t).language, installed, Serial)
       IN /\ threads' =
               IF got.parser = 0
               THEN Returned(threads, t,
                             Ret(Line(<<"# Error: No parser available for language: ",
                                        Local(t).language>>)))
               ELSE Goto([threads EXCEPT ![Frame(t)].parser = got.parser], t, "read")
          /\ built' = IF got.built THEN [built EXCEPT ![Local(t).language] = @ + 1] ELSE built
    /\ UNCHANGED <<fs, analysers, formatters, installed, parsers, last, memo, ctp, steps>>
    /\ UNCHANGED <<avars, anode, made, app>>

\* 4. source_code = f.read(); tree = parser.parse(source_code)
TRead(t) ==
    /\ threads[t].pc = "read"
    /\ threads' =
         IF fs[Local(t).file_path] = Absent
         THEN Returned(threads, t, Catch(Raise("FileNotFoundError"), Local(t).file_path))
         ELSE Goto([threads EXCEPT ![Frame(t)].source_code = fs[Local(t).file_path]],
                   t, "extract")
    /\ UNCHANGED <<cvars, avars, anode, made, app>>

\* 5. structure = analyser.extract_structure(tree, source_code)
TExtract(t) ==
    /\ threads[t].pc = "extract"
    /\ \E structure \in {extract_structure(Local(t).analyser, SrcTree(Local(t).source_code))} :
          threads' =
            IF structure.raised
            THEN Returned(threads, t, Catch(structure, Local(t).file_path))
            ELSE Goto([threads EXCEPT ![Frame(t)].structure = structure], t, "formatter")
    /\ UNCHANGED <<cvars, avars, anode, made, app>>

\* 6. formatter = FormatterFactory.get_formatter(language)
TFormatter(t) ==
    /\ threads[t].pc = "formatter"
    /\ LET formatter == get_formatter(formatters, Local(t).language)
       IN threads' =
            IF formatter = NoneS
            THEN Returned(threads, t,
                          Ret(Line(<<"# Error: No formatter available for language: ",
                                     Local(t).language>>)))
            ELSE Goto([threads EXCEPT ![Frame(t)].formatter = formatter], t, "render")
    /\ UNCHANGED <<cvars, avars, anode, made, app>>

\* 7. return header + formatter.format_structure(structure)
TRender(t) ==
    /\ threads[t].pc = "render"
    /\ \E content \in {format_structure(Local(t).formatter, Local(t).structure.val)} :
          threads' =
            Returned(threads, t,
                     IF content.raised THEN Catch(content, Local(t).file_path)
                     ELSE Ret(Header(Local(t).file_path, Local(t).language) \o content.val))
    /\ UNCHANGED <<cvars, avars, anode, made, app>>

\* thread t calls get_parser_for_language(language) on the base analyser of
\* compressor c
CallGetParser(t, c, language) ==
    /\ steps < MaxSteps
    /\ threads[t].pc = "idle"
    /\ threads' = [[threads EXCEPT ![t] = [IdleThread EXCEPT !.pc = "check", !.op = "get_parser",
                                                             !.arg = language]]
                     EXCEPT ![Frame(t)].self = c, ![Frame(t)].language = language]
    /\ steps' = steps + 1
    /\ UNCHANGED <<fs, analysers, formatters, installed, parsers, built, last, memo, ctp>>
    /\ UNCHANGED <<avars, anode, made, app>>

\* thread t returns a parser (0 for None) from get_parser_for_language
ReturnedParser(th, t, parser) ==
    [th EXCEPT ![t].trace = Append(@, th[t].pc), ![t].pc = "idle", ![t].got = parser,
               ![t].returned = TRUE]

\* if language not in self.parsers: ... else: return self.parsers[language]
TCheck(t) ==
    /\ threads[t].pc = "check"
    /\ threads' =
         IF parsers[Local(t).self][Local(t).language] = 0
         THEN Goto(threads, t, "construct")
         ELSE ReturnedParser(threads, t, parsers[Local(t).self][Local(t).language])
    /\ UNCHANGED <<cvars, avars, anode, made, app>>

\* lang = get_language(language); parser = get_parser(language); an
\* exception of either returns None
TConstruct(t) ==
    /\ threads[t].pc = "construct"
    /\ IF Local(t).language \in installed
       THEN /\ threads' = Goto([threads EXCEPT ![Frame(t)].parser = Serial], t, "store")
            /\ built' = [built EXCEPT ![Local(t).language] = @ + 1]
            /\ made' = [made EXCEPT ![Local(t).self][Local(t).language] = @ + 1]
       ELSE /\ threads' = ReturnedParser(threads, t, 0)
            /\ UNCHANGED <<built, made>>
    /\ UNCHANGED <<fs, analysers, formatters, installed, parsers, last, memo, ctp, steps>>
    /\ UNCHANGED <<avars, anode, app>>

\* self.parsers[language] = parser; return parser
TStore(t) ==
    /\ threads[t].pc = "store"
    /\ parsers' = [parsers EXCEPT ![Local(t).self][Local(t).language] = Local(t).parser]
    /\ threads' = ReturnedParser(threads, t, Local(t).parser)
    /\ UNCHANGED <<fs, analysers, formatters, installed, built, last, memo, ctp, steps>>
    /\ UNCHANGED <<avars, anode, made, app>>

InitPar ==
    /\ \E inst \in Environments : Start(inst, FALSE)
    /\ TreeIdle

NextPar ==
    \/ \E t \in Threads, p \in Paths : CallGenerate(t, p)
    \/ \E t \in Threads : TDetect(t)
    \/ \E t \in Threads : TAnalyser(t)
    \/ \E t \in Threads : TParser(t)
    \/ \E t \in Threads : TRead(t)
    \/ \E t \in Threads : TExtract(t)
    \/ \E t \in Threads : TFormatter(t)
    \/ \E t \in Threads : TRender(t)
    \/ \E t \in Threads, c \in Compressors, l \in {"python", "rust"} : CallGetParser(t, c, l)
    \/ \E t \in Threads : TCheck(t)
    \/ \E t \in Threads : TConstruct(t)
    \/ \E t \in Threads : TStore(t)

SpecPar == InitPar /\ [][NextPar]_vars

-----------------------------------------------------------------------------
(* SpecComment: extract_preceding_comment on the children of one node *)

SiblingKinds == {"line", "block", "javadoc", "modifiers", "method"}

\* the i-th child of the generated node
Sibling(kind, i) ==
    CASE kind = "line" -> Node("line_comment", "// " \o Lbl("note", i), <<>>)
      [] kind = "block" -> Node("block_comment", "/* " \o Lbl("note", i) \o " */", <<>>)
      [] kind = "javadoc" -> Node("block_comment", "/** " \o Lbl("note", i) \o " */", <<>>)
      [] kind = "modifiers" -> Node("modifiers", "public", <<>>)
      [] kind = "method" -> Node("method_declaration", Lbl("m", i), <<>>)

CommentTrees ==
    UNION {{Node("class_body", "", [i \in 1..n |-> Sibling(kinds[i], i)]) :
               kinds \in [1..n -> SiblingKinds]} : n \in 1..MaxSiblings}

InitComment ==
    /\ alang = "java"
    /\ atree \in CommentTrees
    /\ apc = "parsed"
    /\ astruct = Ret(<<>>)
    /\ aout = Ret(EmptyText)
    /\ Start(LangIds \ {"go"}, FALSE)

\* the str or None a call returned, as a text
OptText(r) == IF r = NoneS THEN PyNone ELSE Line(<<r>>)

\* extract_preceding_comment(node, source_code), node the i-th child of atree
PrecedingComment(i) ==
    /\ apc = "parsed"
    /\ i \in DOMAIN atree.children
    /\ anode' = i
    /\ aout' = Ret(OptText(extract_preceding_comment(atree, i)))
    /\ apc' = "commented"
    /\ UNCHANGED <<alang, atree, astruct, threads, made, app>>
    /\ UNCHANGED cvars

\* extract_preceding_comment(node, source_code), node the root atree
PrecedingCommentOfRoot ==
    /\ apc = "parsed"
    /\ anode' = 0
    /\ aout' = Ret(OptText(extract_preceding_comment(NoParent, 0)))
    /\ apc' = "commented"
    /\ UNCHANGED <<alang, atree, astruct, threads, made, app>>
    /\ UNCHANGED cvars

NextComment ==
    \/ \E i \in 1..MaxSiblings : PrecedingComment(i)
    \/ PrecedingCommentOfRoot

SpecComment == InitComment /\ [][NextComment]_vars

-----------------------------------------------------------------------------
(* SpecClean: clean_comment on the text of one comment *)

\* the lengths of the lines of the generated comments, around the limit and
\* around its half
BodyLens == {0, 1, Limit \div 2 - 1, Limit \div 2, Limit - 1, Limit, Limit + 1}

\* what a line of a comment starts with: nothing, the star of a javadoc
\* line, or a javadoc tag
Leads == {<<>>, <<" ", "*", " ">>, <<" ", "@">>}

\* the lines of a generated comment: one or two, each a lead and a body
CommentLines ==
    [lead : Leads, len : BodyLens]

\* the characters of a line
LineChars(l) == l.lead \o [i \in 1..l.len |-> "a"]

\* the text of the comment of a form with the lines given
CommentChars(form, lines) ==
    CASE form = "javadoc" ->
           <<"/", "*", "*", " ">> \o Join(<<"\n">>, MapSeq(LineChars, lines)) \o <<" ", "*", "/">>
      [] form = "block" ->
           <<"/", "*", " ">> \o Join(<<"\n">>, MapSeq(LineChars, lines)) \o <<" ", "*", "/">>
      [] form = "line" -> <<"/", "/", " ">> \o LineChars(lines[1])
      [] form = "hash" -> <<"#", " ">> \o LineChars(lines[1])

\* the comments: javadoc and block comments of one or two lines, line and
\* hash comments of one
Comments ==
    {<<form, <<l>>>> : form \in {"javadoc", "block", "line", "hash"}, l \in CommentLines}
    \cup {<<form, <<l1, l2>>>> : form \in {"javadoc", "block"},
                                  l1 \in CommentLines, l2 \in CommentLines}

\* a comment node with its text held as its characters; astruct keeps the
\* lines it was written from
InitClean ==
    /\ alang = "java"
    /\ \E c \in Comments :
          /\ atree = Node(IF c[1] \in {"line", "hash"} THEN "line_comment" ELSE "block_comment",
                          CommentChars(c[1], c[2]), <<>>)
          /\ astruct = Ret(c[2])
    /\ apc = "parsed"
    /\ aout = Ret(EmptyText)
    /\ Start(LangIds \ {"go"}, FALSE)

\* self.clean_comment(comment_text)
CleanComment ==
    /\ apc = "parsed"
    /\ aout' = Ret(clean_comment(extract_node_text(atree)))
    /\ apc' = "cleaned"
    /\ UNCHANGED <<alang, atree, astruct, anode, threads, made, app>>
    /\ UNCHANGED cvars

NextClean == CleanComment

SpecClean == InitClean /\ [][NextClean]_vars

-----------------------------------------------------------------------------
(* SpecSelect: the interactive file selector on one directory *)

\* the node has been added to the tree: the directory it lies in is loaded
RECURSIVE InTree(_, _)
InTree(a, n) ==
    IF n = "root" THEN TRUE
    ELSE LET parent == CHOOSE d \in SelDirs : n \in Range(DirChildren(d))
         IN a.loaded[parent] /\ InTree(a, parent)

\* the node is shown: every directory above it is expanded
RECURSIVE Shown(_, _)
Shown(a, n) ==
    IF n = "root" THEN TRUE
    ELSE LET parent == CHOOSE d \in SelDirs : n \in Range(DirChildren(d))
         IN a.loaded[parent] /\ a.expanded[parent] /\ Shown(a, parent)

\* populate_node(node): the children of the directory, none selected, a
\* directory among them with its placeholder
populate_node(a, node) ==
    [a EXCEPT !.loaded[node] = TRUE,
              !.selected = [n \in SelNodes |->
                              IF n \in Range(DirChildren(node)) THEN FALSE ELSE @[n]]]

RECURSIVE is_fully_selected(_, _)
\* _is_fully_selected(node)
is_fully_selected(a, node) ==
    IF ~a.selected[node] THEN FALSE
    ELSE IF node \in SelDirs
    THEN IF ~a.loaded[node] THEN TRUE
         ELSE \A i \in DOMAIN DirChildren(node) : is_fully_selected(a, DirChildren(node)[i])
    ELSE TRUE

RECURSIVE set_node_and_children_selected(_, _, _)
RECURSIVE SetChildrenSelected(_, _, _)
\* _set_node_and_children_selected(node, selected)
set_node_and_children_selected(a, node, selected) ==
    IF node \in SelDirs /\ a.loaded[node]
    THEN SetChildrenSelected([a EXCEPT !.selected[node] = selected], DirChildren(node), selected)
    ELSE [a EXCEPT !.selected[node] = selected]

\* the loop over node.children
SetChildrenSelected(a, children, selected) ==
    IF children = <<>> THEN a
    ELSE SetChildrenSelected(set_node_and_children_selected(a, Head(children), selected),
                             Tail(children), selected)

RECURSIVE scan_and_collect(_)
\* _scan_and_collect(dir_path, collected_files): every file under dir_path
scan_and_collect(dir_path) ==
    UNION {IF DirChildren(dir_path)[i] \in SelDirs
           THEN scan_and_collect(DirChildren(dir_path)[i])
           ELSE {DirChildren(dir_path)[i]} : i \in DOMAIN DirChildren(dir_path)}

RECURSIVE CollectSelected(_, _, _)
\* the loop of action_confirm_selection over nodes_to_process
CollectSelected(a, nodes_to_process, selected_files) ==
    IF nodes_to_process = <<>> THEN selected_files
    ELSE LET node == Head(nodes_to_process)
         IN IF node \in SelDirs
            THEN IF a.selected[node]
                 THEN CollectSelected(a, Tail(nodes_to_process),
                                      selected_files \cup scan_and_collect(node))
                 ELSE CollectSelected(a, Tail(nodes_to_process)
                                           \o (IF a.loaded[node] THEN DirChildren(node) ELSE <<>>),
                                      selected_files)
            ELSE CollectSelected(a, Tail(nodes_to_process),
                                 IF a.selected[node] THEN selected_files \cup {node}
                                 ELSE selected_files)

\* on_mount(): the root populated and expanded, nothing selected
InitSelect ==
    /\ StartApp([p \in DetectPaths |-> InitialContent(p)], LangIds \ {"go"},
                NewCodeToPrompt(FALSE, "default"),
                [populate_node(NoApp, "root") EXCEPT !.mounted = TRUE, !.expanded["root"] = TRUE])
    /\ TreeIdle

\* the cursor keys: the cursor goes to a node that is shown
MoveCursor(n) ==
    /\ app.mounted /\ ~app.exited
    /\ Shown(app, n)
    /\ app.cursor # n
    /\ app' = [app EXCEPT !.cursor = n]
    /\ UNCHANGED <<cvars, avars, anode, threads, made>>

\* space: action_toggle_selection()
ToggleSelection ==
    /\ app.mounted /\ ~app.exited
    /\ app.cursor # NoneS
    /\ app' = set_node_and_children_selected(app, app.cursor,
                                              ~is_fully_selected(app, app.cursor))
    /\ UNCHANGED <<cvars, avars, anode, threads, made>>

\* right: node.expand(), then on_tree_node_expanded loads the directory
\* under its placeholder and selects what it loaded if the directory is
\* selected
Expand ==
    /\ app.mounted /\ ~app.exited
    /\ app.cursor \in SelDirs
    /\ ~app.expanded[app.cursor]
    /\ app' = IF app.loaded[app.cursor]
               THEN [app EXCEPT !.expanded[app.cursor] = TRUE]
               ELSE LET populated == [populate_node(app, app.cursor) EXCEPT
                                        !.expanded[app.cursor] = TRUE]
                    IN IF app.selected[app.cursor]
                       THEN set_node_and_children_selected(populated, app.cursor, TRUE)
                       ELSE populated
    /\ UNCHANGED <<cvars, avars, anode, threads, made>>

\* left: node.collapse()
Collapse ==
    /\ app.mounted /\ ~app.exited
    /\ app.cursor \in SelDirs
    /\ app.expanded[app.cursor]
    /\ app' = [app EXCEPT !.expanded[app.cursor] = FALSE]
    /\ UNCHANGED <<cvars, avars, anode, threads, made>>

\* enter: action_confirm_selection()
ConfirmSelection ==
    /\ app.mounted /\ ~app.exited
    /\ app' = [app EXCEPT !.exited = TRUE,
                           !.result = CollectSelected(app, <<"root">>, {})]
    /\ UNCHANGED <<cvars, avars, anode, threads, made>>

NextSelect ==
    \/ \E n \in SelNodes : MoveCursor(n)
    \/ ToggleSelection
    \/ Expand
    \/ Collapse
    \/ ConfirmSelection

SpecSelect == InitSelect /\ [][NextSelect]_vars

-----------------------------------------------------------------------------
(* SpecDetect: detect_language on one path of a directory *)

\* the directory with any content, or no file, at one of the paths
InitDetect ==
    /\ \E p \in DetectPaths, c \in DetectContents \cup {Absent} :
          StartOn([q \in DetectPaths |-> IF q = p THEN c ELSE InitialContent(q)],
                  LangIds \ {"go"}, FALSE)
    /\ TreeIdle

\* base_analyser.detect_language(file_path)
Detect(file_path) ==
    /\ last.op = "none"
    /\ last' = [NoCall EXCEPT !.op = "detect", !.path = file_path,
                              !.language = detect_language(fs, file_path)]
    /\ UNCHANGED <<fs, analysers, formatters, installed, parsers, built, memo, ctp, steps>>
    /\ UNCHANGED <<avars, tvars>>

NextDetect == \E p \in DetectPaths : Detect(p)

SpecDetect == InitDetect /\ [][NextDetect]_vars


\* the skeleton the registered formatter renders for the file of a path
Skeleton(file_path, language) ==
    format_structure(get_formatter(formatters, language),
                     extract_structure(get_analyser(analysers, language),
                                       SrcTree(fs[file_path])).val).val

GenerateReturned == last.op = "generate"

\* C1: a call of generate_compressed_prompt on a file of a registered
\* language returns either None or the two header lines (the path as passed,
\* the detected language id), a blank line and the formatter's rendered
\* skeleton, and nothing of another shape.
C1_HeaderThenSkeleton ==
    (GenerateReturned /\ last.language # NoneS
       /\ get_analyser(analysers, last.language) # NoneS) =>
        /\ ~last.out.raised
        /\ \/ last.out.val = PyNone
           \/ /\ Len(last.out.val) > 3
              /\ SubSeq(last.out.val, 1, 3) = Header(last.path, last.language)
              /\ SubSeq(last.out.val, 4, Len(last.out.val))
                   = Skeleton(last.path, last.language)

\* C2: on a path whose extension is not in the table and whose first line is
\* no recognised shebang (a missing file included) the call returns None and
\* raises nothing.
C2_UndetectedReturnsNone ==
    (GenerateReturned /\ last.language = NoneS) => last.out = Ret(PyNone)

\* C4: whatever step of the pipeline fails, generate_compressed_prompt
\* returns normally: no exception reaches its caller.
C4_NeverRaises == GenerateReturned => ~last.out.raised

\* a call in which extract_structure raised and the call returned a text
C4_Witness ==
    /\ GenerateReturned
    /\ last.stage = "extract"
    /\ ~last.out.raised
    /\ last.out.val = Line(<<"# Error analyzing ", last.path, ": ", "IndexError">>)

\* C9: a second call on a path whose file and the registries did not change
\* since the first returns the same text, on the same or another Compressor.
C9_Idempotent ==
    (GenerateReturned /\ last.prev.called) => last.out = last.prev.out

\* a skeleton returned again by the other Compressor
C9_Witness ==
    /\ GenerateReturned
    /\ last.prev.called
    /\ last.prev.comp # last.comp
    /\ last.stage = "done"
    /\ last.out = last.prev.out

\* C10: over all parser requests of a process, the calls of
\* generate_compressed_prompt included, a parser is constructed at most once
\* per language id.
C10_BuiltOnce == \A l \in LangIds : built[l] <= 1

\* the compressor cannot produce a skeleton for a path
CannotCompress(file_path) ==
    generate_body(fs, analysers, formatters, installed, 1, file_path).stage # "done"

\* C3: after _process_local_files with compression enabled, the entry of
\* every file the compressor cannot produce a skeleton for holds the raw
\* content of the file with is_compressed = false.
C3_FallbackToRaw ==
    (last.op = "process" /\ ctp.files_processed /\ ctp.compress) =>
        \A p \in Paths :
            (ctp.processed_files[p].present /\ CannotCompress(p)) =>
                /\ ctp.processed_files[p].content = RawContent(fs[p])
                /\ ~ctp.processed_files[p].is_compressed

\* the language the extension table gives a path, None for no match
TableLanguage(file_path) ==
    CASE file_path \in {"a.py", "B.PY"} -> "python"
      [] file_path = "m.rs" -> "rust"
      [] file_path = "h.h" -> "c"
      [] OTHER -> NoneS

\* the language of the interpreter the first line of a content names after
\* '#!', None for a line of another kind
ShebangLanguage(c) ==
    CASE c = "shpy" -> "python"
      [] c = "shnode" -> "javascript"
      [] OTHER -> NoneS

\* C17: detect_language returns the table's language when the lower-cased
\* extension is in the table, whatever the file holds or whether it exists;
\* otherwise python or javascript when the first line is a '#!' line naming
\* that interpreter; otherwise, a missing file included, None.
C17_DetectLanguage ==
    last.op = "detect" =>
        last.language =
            IF TableLanguage(last.path) # NoneS THEN TableLanguage(last.path)
            ELSE ShebangLanguage(fs[last.path])

\* a path with an upper-case extension of the table whose file starts with
\* a node shebang line: the extension decides
C17_Witness ==
    /\ last.op = "detect"
    /\ last.path = "B.PY"
    /\ fs["B.PY"] = "shnode"
    /\ last.language = "python"

\* the letter cases a language id is looked up in
CasesOf(language) == IF Lower(language) = "go" THEN {"go", "Go", "GO"} ELSE {"c", "C"}

\* the step is a registration
IsRegistration ==
    \/ \E l \in {"Go", "C"} : RegisterAnalyser(l, "CppAnalyser")
    \/ \E l \in {"Go", "C"} : RegisterFormatter(l, "CppFormatter")

\* what a step that is register_analyser(l, CppAnalyser) does
AnalyserRegistered ==
    \A l \in {"Go", "C"} :
        RegisterAnalyser(l, "CppAnalyser") =>
            /\ \A v \in CasesOf(l) : get_analyser(analysers', v) = "CppAnalyser"
            /\ \A m \in LangIds \ {Lower(l)} :
                  get_analyser(analysers', m) = get_analyser(analysers, m)
            /\ formatters' = formatters

\* what a step that is register_formatter(l, CppFormatter) does
FormatterRegistered ==
    \A l \in {"Go", "C"} :
        RegisterFormatter(l, "CppFormatter") =>
            /\ \A v \in CasesOf(l) : get_formatter(formatters', v) = "CppFormatter"
            /\ \A m \in LangIds \ {Lower(l)} :
                  get_formatter(formatters', m) = get_formatter(formatters, m)
            /\ analysers' = analysers

\* a step that is no registration leaves both registries as they are
RegistriesKept == ~IsRegistration => (analysers' = analysers /\ formatters' = formatters)

\* C18: register_analyser(L, C) and register_formatter(L, F) change the one
\* entry of their registry for the lower-cased L: afterwards the lookup of L
\* in any letter case gives C (F), the lookups of every other id give what
\* they gave before; no other step changes a registry, so an id never
\* registered is looked up as None.
C18_RegisterFrame ==
    /\ get_analyser(analysers, "Go") = NoneS
    /\ get_formatter(formatters, "Go") = NoneS
    /\ [][AnalyserRegistered /\ FormatterRegistered /\ RegistriesKept]_vars

\* after register_analyser('Go', CppAnalyser) the id is found in upper case
\* and the python entry is as it was
C18_Witness ==
    /\ last.op = "register_analyser"
    /\ last.language = "Go"
    /\ get_analyser(analysers, "GO") = "CppAnalyser"
    /\ get_analyser(analysers, "python") = "PythonAnalyser"
    /\ get_formatter(formatters, "go") = NoneS

\* what generate_compressed_prompt returns on a path whose language is not
\* detected
UndetectedResult(file_path) ==
    Ret(Line(<<"# Error: Could not detect language for ", file_path>>))

\* C21: when the grammar of a language cannot be loaded,
\* get_parser_for_language returns None and adds no entry to the cache, and
\* generate_compressed_prompt then returns what it returns for an undetected
\* language.
C21_NoParserAsUndetected ==
    /\ (last.op = "get_parser" /\ last.language \notin installed) =>
          (last.parser = 0 /\ parsers[last.comp][last.language] = 0)
    /\ (GenerateReturned /\ last.stage = "parser") =>
          last.out = UndetectedResult(last.path)

\* the language ids detect_language can return
Detectable == Range(EXTENSION_TO_LANGUAGE) \cup {"python", "javascript"}

\* C27: in the initial registries and after any registrations, every
\* language id detect_language can return has both an analyser and a
\* formatter registered.
C27_DetectableSupported ==
    \A l \in Detectable :
        get_analyser(analysers, l) # NoneS /\ get_formatter(formatters, l) # NoneS

-----------------------------------------------------------------------------
(* Properties of the analysers and formatters *)

RECURSIVE PreOrder(_)
\* the nodes of a tree in source order
PreOrder(node) == <<node>> \o Flatten(MapSeq(PreOrder, node.children))

NodesOf(tree) == Range(PreOrder(tree))

\* the tokens of a text
TokensOf(text) == UNION {Range(text[i]) : i \in DOMAIN text}

\* the texts that name a statement of a generated source: its import or
\* include line, or the identifier it declares
StatementLabels ==
    {Lbl(pre, k) : pre \in {"import m", "C", "f", "K", "S", "E", "G", "M", "g", "T", "N"},
                   k \in 0..(MaxNodes + 1)}
    \cup {Lbl("#include <h", k) \o ">" : k \in 0..(MaxNodes + 1)}

\* the label of a statement node: that of the first labelled node in it
LabelOf(node) ==
    LET seq == SelectSeq(PreOrder(node), LAMBDA n : n.text \in StatementLabels)
    IN IF seq = <<>> THEN "" ELSE seq[1].text

Extracted == apc \in {"extracted", "rendered"} /\ ~astruct.raised

Rendered == apc = "rendered" /\ ~aout.raised

\* the labelled nodes inside the body of a function or method
BodyNodes(tree) ==
    UNION { UNION { {n \in NodesOf(b) : n.text \in StatementLabels}
                    : b \in {c \in Range(f.children) : c.type \in {"block", "compound_statement"}} }
            : f \in {n \in NodesOf(tree) : n.type \in {"function_definition", "function_item"}} }

\* C5: the rendered skeleton holds no statement whose node lies inside a
\* function or method body, whatever kind of node it is.
C5_NoBodyStatement ==
    Rendered => \A n \in BodyNodes(atree) : n.text \notin TokensOf(aout.val)

PyModuleDefs(tree, type) == OfType(tree.children, type)

\* the function definitions that are statements of the block of a class
PyMethodNodes(class) ==
    Flatten(MapSeq(LAMBDA b : OfType(b.children, "function_definition"),
                   OfType(class.children, "block")))

\* every def of the source is a module-level function or a method of a
\* module-level class, and every class is at module level
PyPlain(tree) ==
    LET classes == PyModuleDefs(tree, "class_definition")
        plain == Range(PyModuleDefs(tree, "function_definition")) \cup Range(classes)
                 \cup UNION {Range(PyMethodNodes(classes[i])) : i \in DOMAIN classes}
    IN \A n \in NodesOf(tree) :
          n.type \in {"function_definition", "class_definition"} => n \in plain

RECURSIVE SumSeq(_)
SumSeq(seq) == IF seq = <<>> THEN 0 ELSE Head(seq) + SumSeq(Tail(seq))

\* C6: for a Python source of N module-level functions and M classes with K
\* methods in total, extract_structure returns N entries in 'functions' and
\* M entries in 'classes' whose 'methods' sum to K; no method is also a
\* top-level function.
C6_Counts ==
    (alang = "python" /\ Extracted /\ PyPlain(atree)) =>
        LET classes == PyModuleDefs(atree, "class_definition")
            st == astruct.val
        IN /\ Len(st.functions) = Len(PyModuleDefs(atree, "function_definition"))
           /\ Len(st.classes) = Len(classes)
           /\ SumSeq(MapSeq(LAMBDA c : Len(c.methods), st.classes))
                = SumSeq(MapSeq(LAMBDA c : Len(PyMethodNodes(c)), classes))
           /\ \A i \in DOMAIN st.classes : \A j \in DOMAIN st.classes[i].methods :
                 \A k \in DOMAIN st.functions :
                    st.functions[k].name # st.classes[i].methods[j].name

\* the node types a mod's or a namespace's declaration list is read for
DeclTypes ==
    RsModuleKinds \cup {"class_specifier", "struct_specifier", "enum_specifier",
                        "type_definition", "function_definition", "declaration"}

\* the declarations of the declaration lists of the mod items and namespaces
NestedDecls(tree) ==
    UNION { UNION { {d \in Range(l.children) : d.type \in DeclTypes}
                    : l \in {c \in Range(m.children) : c.type = "declaration_list"} }
            : m \in {n \in NodesOf(tree) : n.type \in {"mod_item", "namespace_definition"}} }

\* the name a record is known by: the type of an impl, the name otherwise
NamesOf(records) == {records[i].name : i \in DOMAIN records}

\* the names recorded in the top-level lists of a model
RootNames(lang, st) ==
    IF lang = "rust"
    THEN NamesOf(st.structs) \cup NamesOf(st.enums) \cup NamesOf(st.traits)
         \cup NamesOf(st.functions) \cup NamesOf(st.globals)
         \cup {st.impls[i].type : i \in DOMAIN st.impls}
    ELSE NamesOf(st.classes) \cup NamesOf(st.structs) \cup NamesOf(st.enums)
         \cup NamesOf(st.typedefs) \cup NamesOf(st.functions) \cup NamesOf(st.globals)

\* the names recorded inside the module / namespace records of a model
NestedNames(lang, st) ==
    IF lang = "rust"
    THEN UNION { { IF it[1] = "impl" THEN it[2].type ELSE it[2].name
                   : it \in Range(st.modules[i].items) } : i \in DOMAIN st.modules }
    ELSE UNION { RootNames("cpp", st.namespaces[i]) : i \in DOMAIN st.namespaces }

\* C7: every declaration of the declaration list of a Rust mod or a C++
\* namespace is recorded inside the nested record and in no top-level list
\* of the root model.
C7_OneContainer ==
    (alang \in {"rust", "cpp"} /\ Extracted) =>
        \A d \in NestedDecls(atree) :
            /\ LabelOf(d) \in NestedNames(alang, astruct.val)
            /\ LabelOf(d) \notin RootNames(alang, astruct.val)

\* what an entry of a section is rendered by: the line of an import or an
\* include, the type of an impl, the name of any other record
EntryLabels(section, entries) ==
    CASE section \in {"imports", "includes"} -> Range(entries)
      [] section = "impls" -> {entries[i].type : i \in DOMAIN entries}
      [] OTHER -> NamesOf(entries)

\* C8: every non-empty section of the model an analyser produced contributes
\* an entry to the text its language's format_structure returns: no
\* declaration kind is dropped by the formatter.
C8_EverySectionRendered ==
    Rendered =>
        \A section \in DOMAIN astruct.val :
            astruct.val[section] # <<>> =>
                EntryLabels(section, astruct.val[section]) \cap TokensOf(aout.val) # {}

\* C13: on every syntax tree, a declaration that lacks an expected child
\* included, extract_structure of every analyser raises no exception and
\* returns a model.
C13_ExtractTotal == apc \in {"extracted", "rendered"} => ~astruct.raised

RECURSIVE SkipModifiers(_, _)
\* the nearest sibling at or before i that is no modifiers node, 0 for none
SkipModifiers(children, i) ==
    IF i = 0 THEN 0
    ELSE IF children[i].type = "modifiers" THEN SkipModifiers(children, i - 1)
    ELSE i

IsComment(n) == n.type \in {"line_comment", "block_comment"}

RECURSIVE RunStart(_, _)
\* the first sibling of the run of comments that ends at sibling i
RunStart(children, i) ==
    IF i > 1 /\ IsComment(children[i - 1]) THEN RunStart(children, i - 1) ELSE i

\* the comments of the contiguous run that precedes the i-th child, only
\* modifiers skipped between the run and the child, in source order
PrecedingRun(children, i) ==
    LET e == SkipModifiers(children, i - 1)
    IN IF e = 0 \/ ~IsComment(children[e]) THEN <<>>
       ELSE SubSeq(children, RunStart(children, e), e)

\* C14: extract_preceding_comment(node) returns the cleaned text of the
\* whole contiguous run of comment siblings that immediately precede node
\* (modifiers skipped), and None when there is no such run, when node is the
\* first child or when node has no parent.
C14_WholeRun ==
    apc = "commented" =>
        LET run == IF anode = 0 THEN <<>> ELSE PrecedingRun(atree.children, anode)
        IN aout.val = IF run = <<>> THEN PyNone
                      ELSE Line([k \in DOMAIN run |-> Str(clean_comment(Chars(run[k].text)))])

\* class K0: def f1(x, y): """doc2"""
ScenarioB == PyModule(<<PyClass(0, <<PyDef(1, <<PyDocStmt(2)>>)>>)>>)

\* the lines of a text that hold a token
LinesWith(text, tok) == {i \in DOMAIN text : tok \in Range(text[i])}

ScenarioA == PyModule(<<PyImport(0), PyDef(1, <<>>)>>)

\* C16: for a source of the module-scope statements `import m0` and
\* `def f1(x, y):` extract_structure returns exactly one import, of the
\* text `import m0`, and exactly one top-level function record, named f1,
\* whose parameter list holds the two parameters x and y and whose return
\* type is absent.
C16_ScenarioA ==
    (alang = "python" /\ atree = ScenarioA /\ Extracted) =>
        /\ astruct.val.imports = <<Lbl("import m", 0)>>
        /\ Len(astruct.val.functions) = 1
        /\ astruct.val.functions[1].name = Lbl("f", 1)
        /\ astruct.val.functions[1].return_type = NoneS
        /\ astruct.val.functions[1].parameters \notin STRING
        /\ astruct.val.functions[1].parameters = <<"x", "y">>

\* the import, include and use statements of a source
ImportNodes(tree) ==
    SelectSeq(PreOrder(tree),
              LAMBDA n : n.type \in {"import_statement", "import_from_statement",
                                     "preproc_include", "use_declaration"})

\* the Import records of a model
ImportRecords(st) ==
    IF "imports" \in DOMAIN st THEN st.imports
    ELSE IF "includes" \in DOMAIN st THEN st.includes
    ELSE <<>>

\* C19: every import / include / use statement of the source yields an
\* Import record holding the statement's text, and the rendered skeleton has
\* that text as a line of its own, nothing added, removed or reformatted.
C19_ImportsVerbatim ==
    /\ Extracted =>
          ImportRecords(astruct.val) = MapSeq(LAMBDA n : n.text, ImportNodes(atree))
    /\ Rendered =>
          \A n \in Range(ImportNodes(atree)) : \E i \in DOMAIN aout.val : aout.val[i] = <<n.text>>

\* the assignments NAME = value that are statements of the module
ModuleAssignments(tree) ==
    MapSeq(LAMBDA stmt : stmt.children[1],
           SelectSeq(tree.children,
                     LAMBDA stmt : /\ stmt.type = "expression_statement"
                                   /\ stmt.children # <<>>
                                   /\ stmt.children[1].type = "assignment"))

\* C20: the model holds a Constant for every module-scope assignment to an
\* all-uppercase name, with the text of the assigned expression as its
\* value, and for nothing else.
C20_ModuleConstants ==
    (alang = "python" /\ Extracted) =>
        astruct.val.constants =
            MapSeq(LAMBDA a : [name |-> a.children[1].text, value |-> a.children[3].text],
                   SelectSeq(ModuleAssignments(atree),
                             LAMBDA a : IsUpper(a.children[1].text)))

\* C28: format_structure of a language's formatter raises no exception on
\* any model the same language's extract_structure returned, methods with
\* one or more parameters included.
C28_FormatterTotal == apc = "rendered" => ~aout.raised

\* the header line of a class in a skeleton
HeaderOf(text, name) == text[Min(LinesWith(text, name))]

\* the base types a header lists after the class name, as written
ListedBases(header) ==
    IF "(" \in Range(header) THEN header[Min({i \in DOMAIN header : header[i] = "("}) + 1]
    ELSE ""

\* C29: the rendered header of a class recorded with base types lists
\* exactly those type names, each once and unaltered, after the class name;
\* a class recorded without base types renders with none.
C29_BasesListed ==
    (alang = "python" /\ Rendered) =>
        \A i \in DOMAIN astruct.val.classes :
            LET c == astruct.val.classes[i]
            IN ListedBases(HeaderOf(aout.val, c.name)) = c.inheritance

\* the labels of the statements of a source, in source order
LabelsOf(tree) ==
    MapSeq(LAMBDA n : n.text, SelectSeq(PreOrder(tree), LAMBDA n : n.text \in StatementLabels))

\* the place of the statement a label names in the source
Position(order, label) == Min({i \in DOMAIN order : order[i] = label})

\* the labels of a list are those of statements met in source order
InSourceOrder(order, labels) ==
    \A i \in 1..(Len(labels) - 1) :
        (labels[i] \in Range(order) /\ labels[i + 1] \in Range(order)) =>
            Position(order, labels[i]) < Position(order, labels[i + 1])

Names(records) == [i \in DOMAIN records |-> records[i].name]

\* the lists of records of a model, each as the list of its labels
ListsOf(lang, st) ==
    CASE lang = "python" ->
           {st.imports, Names(st.constants), Names(st.functions), Names(st.classes)}
           \cup {Names(st.classes[i].methods) : i \in DOMAIN st.classes}
      [] lang = "rust" ->
           {Names(st.modules), Names(st.structs), Names(st.enums), Names(st.traits),
            Names(st.functions), Names(st.globals),
            [i \in DOMAIN st.impls |-> st.impls[i].type]}
           \cup {Names(st.traits[i].methods) : i \in DOMAIN st.traits}
           \cup {Names(st.impls[i].methods) : i \in DOMAIN st.impls}
           \cup {[j \in DOMAIN st.modules[i].items |->
                     IF st.modules[i].items[j][1] = "impl"
                     THEN st.modules[i].items[j][2].type
                     ELSE st.modules[i].items[j][2].name] : i \in DOMAIN st.modules}
      [] lang = "cpp" ->
           LET scopes == {st} \cup Range(st.namespaces)
           IN {st.includes}
              \cup UNION {{Names(sc.classes), Names(sc.structs), Names(sc.enums),
                           Names(sc.typedefs), Names(sc.functions), Names(sc.globals)}
                          \cup {Names(sc.classes[i].methods) : i \in DOMAIN sc.classes}
                          : sc \in scopes}

KeptLines(lines) == SelectSeq(lines, LAMBDA l : l.len > 0 /\ l.lead # <<" ", "@">>)

\* the length of the cleaned text of a comment written from the lines: the
\* bodies of the kept lines with one blank between two
CleanedLength(lines) ==
    SumSeq(MapSeq(LAMBDA l : l.len, KeptLines(lines)))
    + (IF KeptLines(lines) = <<>> THEN 0 ELSE Len(KeptLines(lines)) - 1)

-----------------------------------------------------------------------------
(* Properties of the file selector *)

\* the directories a node lies under
RECURSIVE DirsAbove(_)
DirsAbove(n) ==
    IF n = "root" THEN {}
    ELSE LET parent == CHOOSE d \in SelDirs : n \in Range(DirChildren(d))
         IN {parent} \cup DirsAbove(parent)

\* C30: the list returned on confirm contains a file only if the file's own
\* tree node is selected or the file lies under a selected directory whose
\* contents were never loaded; a file deselected after its parent directory
\* was selected is never returned.
C30_OnlySelectedReturned ==
    app.exited =>
        \A f \in app.result :
            \/ InTree(app, f) /\ app.selected[f]
            \/ \E d \in DirsAbove(f) : InTree(app, d) /\ app.selected[d] /\ ~app.loaded[d]

-----------------------------------------------------------------------------
(* Properties of the output formats *)

Built == last.op = "build"

RawFiles == {p \in Paths : ctp.processed_files[p].present /\ ~ctp.processed_files[p].is_compressed}

\* C24: in markdown format the run of backticks that opens and closes the
\* code block of a non-compressed file has at least three backticks and
\* does not occur in the content of the file.
C24_FenceOutlastsContent ==
    (Built /\ ctp.output_format = "markdown") =>
        \A p \in RawFiles :
            \E i \in DOMAIN ctp.parts :
                /\ ctp.parts[i] = Line(<<"## ", p>>)
                /\ Ticks(ctp.parts[i + 1][1][1]) >= 3
                /\ ctp.parts[i + 2] = ctp.processed_files[p].content
                /\ ctp.parts[i + 3] = Line(<<ctp.parts[i + 1][1][1]>>)
                /\ ~InContent(Ticks(ctp.parts[i + 1][1][1]), ctp.parts[i + 2])

\* a markdown prompt of a file whose content holds a run of three backticks
\* and a longer one
C24_Witness ==
    /\ Built /\ ctp.output_format = "markdown"
    /\ \E p \in RawFiles : InContent(MaxRun, ctp.processed_files[p].content)

\* the places of a part in the parts of the prompt
PlacesOf(part) == {i \in DOMAIN ctp.parts : ctp.parts[i] = part}

\* the document element of the file at place i of the sorted files lies at
\* parts[at - 1 .. at + 4], with index i and the content of the file
IsDocument(at, i, file_path) ==
    /\ ctp.parts[at - 1] = Line(<<"<document index=\"", ToString(i), "\">">>)
    /\ ctp.parts[at] = Line(<<"<source>", file_path, "</source>">>)
    /\ ctp.parts[at + 1] = Line(<<"<document_content>">>)
    /\ ctp.parts[at + 2] = ctp.processed_files[file_path].content
    /\ ctp.parts[at + 3] = Line(<<"</document_content>">>)
    /\ ctp.parts[at + 4] = Line(<<"</document>">>)

\* every file of the list has one document element, indexed by its place
\* in the list, between <documents> and </documents>
DocumentsOf(files) ==
    /\ Cardinality(PlacesOf(Line(<<"<documents>">>))) = 1
    /\ PlacesOf(Line(<<"</documents>">>)) = {Len(ctp.parts)}
    /\ \A i \in DOMAIN files :
          /\ Cardinality(PlacesOf(Line(<<"<source>", files[i], "</source>">>))) = 1
          /\ \A at \in PlacesOf(Line(<<"<source>", files[i], "</source>">>)) :
                /\ IsDocument(at, i, files[i])
                /\ \A open \in PlacesOf(Line(<<"<documents>">>)) : open < at - 1

\* C25: in cxml format every processed file is emitted as exactly one
\* <document index="i"> element with its <source> path and its
\* <document_content>, all between <documents> and </documents>, the
\* indices being 1, 2, ..., n in sorted path order on every pass.
C25_DocumentsIndexed ==
    (Built /\ ctp.output_format = "cxml") => DocumentsOf(SortedFiles(ctp))

\* the same of the files that were not compressed
DocumentsOfRawFiles ==
    (Built /\ ctp.output_format = "cxml") =>
        DocumentsOf(SelectSeq(SortedFiles(ctp), LAMBDA p : p \in RawFiles))

-----------------------------------------------------------------------------
(* Properties of the threads *)

\* C11: two threads that call get_parser_for_language on the same cache for
\* the same language construct one parser for it between them and are
\* returned that same instance.
C11_OneParserPerCache ==
    /\ \A c \in Compressors, l \in LangIds : made[c][l] <= 1
    /\ \A t1, t2 \in Threads :
          (/\ threads[t1].returned /\ threads[t2].returned
           /\ threads[t1].op = "get_parser" /\ threads[t2].op = "get_parser"
           /\ threads[t1].self = threads[t2].self
           /\ threads[t1].arg = threads[t2].arg
           /\ threads[t1].got # 0 /\ threads[t2].got # 0)
          => threads[t1].got = threads[t2].got

\* the steps of generate_compressed_prompt in the order of the claim; read
\* stands for reading the bytes and parsing them
StepOrder == <<"detect", "analyser", "parser", "read", "extract", "formatter", "render">>

IsPrefix(s1, s2) == Len(s1) <= Len(s2) /\ s1 = SubSeq(s2, 1, Len(s1))

\* C22: the steps of a call of generate_compressed_prompt occur in the order
\* detect, analyser, parser, read and parse, extract, formatter, render and
\* the call stops at the first step that fails: without a detected language
\* nothing follows the detection, without an analyser or a parser the file
\* is not read and nothing is extracted or rendered, without a formatter
\* nothing is rendered.
C22_LinearShortCircuit ==
    \A t \in Threads :
        threads[t].op = "generate" =>
            /\ IsPrefix(threads[t].trace, StepOrder)
            /\ threads[t].returned =>
                  LET language == detect_language(fs, threads[t].arg)
                      done == Range(threads[t].trace)
                  IN /\ language = NoneS => threads[t].trace = <<"detect">>
                     /\ (language # NoneS /\ get_analyser(analysers, language) = NoneS) =>
                           threads[t].trace = <<"detect", "analyser">>
                     /\ (language # NoneS /\ get_analyser(analysers, language) # NoneS
                           /\ language \notin installed) =>
                           threads[t].trace = <<"detect", "analyser", "parser">>
                     /\ (language # NoneS /\ get_formatter(formatters, language) = NoneS) =>
                           "render" \notin done

\* a call on an existing file of a language whose grammar cannot be loaded
\* has returned, and another on a file of a language without a formatter
C22_Witness ==
    \E t, u \in Threads :
        /\ threads[t].returned /\ threads[t].op = "generate"
        /\ fs[threads[t].arg] # Absent
        /\ threads[t].trace = <<"detect", "analyser", "parser">>
        /\ threads[u].returned /\ threads[u].op = "generate"
        /\ threads[u].trace = <<"detect", "analyser", "parser", "read", "extract", "formatter">>

\* the result of a call on a path made alone in a process just started
Alone(file_path) ==
    generate_compressed_prompt(fs, DefaultAnalysers, DefaultFormatters, installed, 1,
                               file_path).out

\* C12: a call of generate_compressed_prompt returns what it returns when
\* made alone, whatever calls on other files ran before it or run
\* interleaved with it on another thread.
C12_Independent ==
    \A t \in Threads :
        (threads[t].returned /\ threads[t].op = "generate") =>
            threads[t].out = Alone(threads[t].arg)

\* a skeleton returned by a thread while the other thread is in the middle
\* of a call on another file, after an earlier call on a third file
C12_Witness ==
    \E t, u \in Threads :
        /\ threads[t].returned /\ threads[t].op = "generate"
        /\ Len(threads[t].out.val) > 3
        /\ threads[u].op = "generate"
        /\ threads[u].pc \in {"read", "extract", "formatter", "render"}
        /\ threads[u].arg # threads[t].arg
        /\ steps = 3

====
